---------------------------- MODULE Spec2Model ----------------------------
(***************************************************************************)
(* Biscuit token (src/token/mod.rs): block assembly, append, the seeding   *)
(* gate of generate_world and the caveat orchestration of check.           *)
(*                                                                         *)
(* The Datalog evaluator (super::datalog), the builders (token::builder)   *)
(* and the signed container (format::SerializedBiscuit) are collaborators  *)
(* whose code is not part of src/token/mod.rs; they are modelled from the  *)
(* written specification (sections 4.1 to 4.3).                            *)
(***************************************************************************)
EXTENDS Integers, Sequences, FiniteSets, TLC

VARIABLES token, parent, rootkey, vin, result, basetable, wire, forged,
          db, calls

vars == <<token, parent, rootkey, vin, result, basetable, wire, forged,
          db, calls>>

(***************************************************************************)
(* Bounds of the exploration.                                              *)
(***************************************************************************)
\* number of blocks appended after the authority block
MaxBlocks == 2

(***************************************************************************)
(* Sequence helpers.                                                       *)
(***************************************************************************)
Range(seq) == {seq[i] : i \in 1..Len(seq)}

RECURSIVE Concat(_)
Concat(seqs) ==
    IF Len(seqs) = 0 THEN <<>> ELSE Head(seqs) \o Concat(Tail(seqs))

(***************************************************************************)
(* Symbol table (spec 4.1): an ordered sequence of unique strings, the id  *)
(* of a symbol is its position, counted from 0.                            *)
(***************************************************************************)
default_symbol_table ==
    <<"authority", "ambient", "resource", "operation", "right",
      "current_time", "revocation_id">>

NoSymbol == -1

\* SymbolTable::get: the id of s, NoSymbol when absent
SymGet(symbols, s) ==
    IF \E i \in 1..Len(symbols) : symbols[i] = s
    THEN (CHOOSE i \in 1..Len(symbols) :
              symbols[i] = s /\ \A j \in 1..(i - 1) : symbols[j] # s) - 1
    ELSE NoSymbol

\* SymbolTable::insert: the table after interning s (unchanged when present)
SymInsert(symbols, s) ==
    IF SymGet(symbols, s) # NoSymbol THEN symbols ELSE Append(symbols, s)

\* insert applied to each of strs in order: the strings not yet in the table
\* are added at its end, in the order of their first occurrence
SymInsertAll(symbols, strs) ==
    LET fresh == {i \in 1..Len(strs) :
                     /\ strs[i] \notin Range(symbols)
                     /\ \A j \in 1..(i - 1) : strs[j] # strs[i]}
        nth(k) == CHOOSE i \in fresh : Cardinality({j \in fresh : j < i}) = k - 1
    IN  symbols \o [k \in 1..Cardinality(fresh) |-> strs[nth(k)]]

(***************************************************************************)
(* Builder-level terms (token::builder): symbols and variables are named   *)
(* by strings, integers are literal.                                       *)
(***************************************************************************)
s(name) == <<"sym", name>>
var(name) == <<"var", name>>
int(i) == <<"int", i>>
pred(name, ids) == [name |-> name, ids |-> ids]
fact(name, ids) == [predicate |-> pred(name, ids)]
rule(name, ids, body) ==
    [head |-> pred(name, ids), body |-> body, constraints |-> <<>>]
constrained_rule(name, ids, body, constraints) ==
    [head |-> pred(name, ids), body |-> body, constraints |-> constraints]
caveat(queries) == [queries |-> queries]

\* the strings a builder-level item interns, in conversion order
TermStrs(t) == IF t[1] = "int" THEN <<>> ELSE <<t[2]>>
PredStrs(p) ==
    <<p.name>> \o Concat([i \in 1..Len(p.ids) |-> TermStrs(p.ids[i])])
FactStrs(f) == PredStrs(f.predicate)
RuleStrs(r) ==
    PredStrs(r.head) \o Concat([i \in 1..Len(r.body) |-> PredStrs(r.body[i])])
       \o Concat([i \in 1..Len(r.constraints) |-> <<r.constraints[i].id>>])
CaveatStrs(c) == Concat([i \in 1..Len(c.queries) |-> RuleStrs(c.queries[i])])

\* conversion of builder-level items to ids under a table holding their strings
ConvTerm(symbols, t) ==
    IF t[1] = "int" THEN t ELSE <<t[1], SymGet(symbols, t[2])>>
ConvPred(symbols, p) ==
    [name |-> SymGet(symbols, p.name),
     ids  |-> [i \in 1..Len(p.ids) |-> ConvTerm(symbols, p.ids[i])]]
ConvFact(symbols, f) == [predicate |-> ConvPred(symbols, f.predicate)]
ConvRule(symbols, r) ==
    [head |-> ConvPred(symbols, r.head),
     body |-> [i \in 1..Len(r.body) |-> ConvPred(symbols, r.body[i])],
     constraints |->
        [i \in 1..Len(r.constraints) |->
            [id   |-> SymGet(symbols, r.constraints[i].id),
             kind |-> r.constraints[i].kind,
             set  |-> r.constraints[i].set]]]
ConvCaveat(symbols, c) ==
    [queries |-> [i \in 1..Len(c.queries) |-> ConvRule(symbols, c.queries[i])]]


(***************************************************************************)
(* Datalog evaluator (spec 4.2).  A World is a set of ground facts and an  *)
(* ordered list of rules; terms are <<tag, value>> with tag "sym", "var"   *)
(* or "int" and value a symbol id or an integer.                           *)
(***************************************************************************)
Symbol(id) == <<"sym", id>>

NewWorld == [facts |-> {}, rules |-> <<>>]

TermsOf(facts) == UNION {Range(f.predicate.ids) : f \in facts}

PredVars(p) == {p.ids[i][2] : i \in {j \in 1..Len(p.ids) : p.ids[j][1] = "var"}}

BodyVars(r) == UNION {PredVars(r.body[i]) : i \in 1..Len(r.body)}

\* the predicate p under the substitution sub (variable id -> ground term)
Subst(sub, p) ==
    [name |-> p.name,
     ids  |-> [i \in 1..Len(p.ids) |->
                 IF p.ids[i][1] = "var" /\ p.ids[i][2] \in DOMAIN sub
                 THEN sub[p.ids[i][2]] ELSE p.ids[i]]]

\* integer set constraints: `in {set}` and `not in {set}`
ConstraintHolds(sub, c) ==
    /\ c.id \in DOMAIN sub
    /\ sub[c.id][1] = "int"
    /\ \/ c.kind = "int_in" /\ sub[c.id][2] \in c.set
       \/ c.kind = "int_not_in" /\ sub[c.id][2] \notin c.set

\* the substitutions of the body variables that satisfy every body predicate
\* against the facts, and every constraint
Matches(facts, r) ==
    {sub \in [BodyVars(r) -> TermsOf(facts)] :
        /\ \A i \in 1..Len(r.body) :
              [predicate |-> Subst(sub, r.body[i])] \in facts
        /\ \A i \in 1..Len(r.constraints) :
              ConstraintHolds(sub, r.constraints[i])}

\* Rule::apply: the head instantiations producible from the facts
RuleApply(facts, r) ==
    IF PredVars(r.head) \subseteq BodyVars(r)
    THEN {[predicate |-> Subst(sub, r.head)] : sub \in Matches(facts, r)}
    ELSE {}

\* World::query_rule: all head instantiations, the World is not changed
QueryRule(world, r) == RuleApply(world.facts, r)

\* the safety bound of World::run, in passes that add a fact (spec 4.2 gives
\* 100 rounds as an example; the model keeps the bound small)
RunLimit == 4

\* a run that makes one pass and reports success
RunOnePass(world, round) ==
    [world |-> [world EXCEPT !.facts =
                   world.facts \cup
                      UNION {RuleApply(world.facts, world.rules[i]) :
                                i \in 1..Len(world.rules)}],
     kind  |-> "Ok"]

\* World::run: saturate until a full pass adds nothing, or fail with
\* RunLimit when a pass would still add facts after RunLimit adding passes;
\* the facts gathered so far stay in the World
RECURSIVE RunRounds(_, _)
RunRounds(world, round) ==
    LET new == world.facts \cup
                 UNION {RuleApply(world.facts, world.rules[i]) :
                           i \in 1..Len(world.rules)}
    IN  IF new = world.facts THEN [world |-> world, kind |-> "Ok"]
        ELSE IF round = RunLimit THEN [world |-> world, kind |-> "RunLimit"]
        ELSE RunRounds([world EXCEPT !.facts = new], round + 1)

\* `world.run();` as token/mod.rs calls it: a statement whose outcome is
\* dropped, the World is used as the run left it
Run(world) == RunRounds(world, 0).world

(***************************************************************************)
(* Keys and the signed container (spec 4.3).  A keypair is named by a      *)
(* number; the aggregated signature is the list of the per-block           *)
(* signatures, each binding the signer's public key to the block bytes.    *)
(***************************************************************************)
PublicOf(keypair) == <<"public", keypair>>

Sign(keypair, bytes) == [signer |-> PublicOf(keypair), message |-> bytes]

\* the schema's encoding of a block: its fields in schema order
Encode(block) ==
    <<block.index, block.symbols, block.facts, block.rules, block.caveats,
      block.context>>

\* SerializedBiscuit::new
SerializedNew(root, authority) ==
    [authority |-> Encode(authority),
     blocks    |-> <<>>,
     keys      |-> <<PublicOf(root)>>,
     signature |-> <<Sign(root, Encode(authority))>>]

\* SerializedBiscuit::append
SerializedAppend(container, keypair, block) ==
    [container EXCEPT
        !.blocks    = Append(@, Encode(block)),
        !.keys      = Append(@, PublicOf(keypair)),
        !.signature = Append(@, Sign(keypair, Encode(block)))]

\* check_root_key that compares the root key and trusts the signature
SerializedCheckRootKeyOnly(container, root) ==
    IF Len(container.keys) = 0 THEN "EmptyKeys"
    ELSE IF container.keys[1] # root THEN "UnknownPublicKey"
    ELSE "Ok"

\* SerializedBiscuit::check_root_key: the key list starts with the root key
\* and the aggregated signature covers the block sequence under the key list
SerializedCheckRootKey(container, root) ==
    LET messages == <<container.authority>> \o container.blocks
    IN  IF Len(container.keys) = 0 THEN "EmptyKeys"
        ELSE IF container.keys[1] # root THEN "UnknownPublicKey"
        ELSE IF \/ Len(container.keys) # Len(messages)
                \/ Len(container.signature) # Len(messages)
                \/ \E i \in 1..Len(messages) :
                      container.signature[i] #
                         [signer |-> container.keys[i], message |-> messages[i]]
             THEN "Signature"
        ELSE "Ok"

(***************************************************************************)
(* Blocks and block builders.                                              *)
(***************************************************************************)
NoContext == ""

\* Block::new
BlockNew(index, base_symbols) ==
    [index |-> index, symbols |-> base_symbols, facts |-> <<>>,
     rules |-> <<>>, caveats |-> <<>>, context |-> NoContext]

\* BlockBuilder::build: the strings not yet in the table become the block's
\* own symbols, facts, rules and caveats are converted to ids
Build(builder, symbols) ==
    LET strs ==
            Concat([i \in 1..Len(builder.facts) |-> FactStrs(builder.facts[i])])
         \o Concat([i \in 1..Len(builder.rules) |-> RuleStrs(builder.rules[i])])
         \o Concat([i \in 1..Len(builder.caveats) |->
                       CaveatStrs(builder.caveats[i])])
        all == SymInsertAll(symbols, strs)
    IN  [BlockNew(builder.index, SubSeq(all, Len(symbols) + 1, Len(all)))
           EXCEPT
            !.facts   = [i \in 1..Len(builder.facts) |->
                            ConvFact(all, builder.facts[i])],
            !.rules   = [i \in 1..Len(builder.rules) |->
                            ConvRule(all, builder.rules[i])],
            !.caveats = [i \in 1..Len(builder.caveats) |->
                            ConvCaveat(all, builder.caveats[i])]]

(***************************************************************************)
(* Biscuit: { authority, blocks, symbols, container }.  An absent          *)
(* container (a sealed token) is the empty sequence, a present one a       *)
(* sequence of one.                                                        *)
(***************************************************************************)
IsDisjoint(symbols1, symbols2) == Range(symbols1) \cap Range(symbols2) = {}

\* new without the test of the authority index
BiscuitNewAnyIndex(root, symbols, authority) ==
    IF ~IsDisjoint(symbols, authority.symbols)
    THEN [kind |-> "SymbolTableOverlap"]
    ELSE [kind  |-> "Ok",
          token |-> [authority |-> authority,
                     blocks    |-> <<>>,
                     symbols   |-> symbols \o authority.symbols,
                     container |-> <<SerializedNew(root, authority)>>]]

\* Biscuit::new
BiscuitNew(root, symbols, authority) ==
    IF ~IsDisjoint(symbols, authority.symbols)
    THEN [kind |-> "SymbolTableOverlap"]
    ELSE IF authority.index # 0
    THEN [kind |-> "InvalidAuthorityIndex", got |-> authority.index]
    ELSE [kind  |-> "Ok",
          token |-> [authority |-> authority,
                     blocks    |-> <<>>,
                     symbols   |-> symbols \o authority.symbols,
                     container |-> <<SerializedNew(root, authority)>>]]

\* Biscuit::create_block
CreateBlock(tok, content) ==
    [index   |-> 1 + Len(tok.blocks),
     facts   |-> content.facts,
     rules   |-> content.rules,
     caveats |-> content.caveats]

\* append that keeps only the new block
BiscuitAppendReplacing(tok, keypair, block_builder) ==
    IF Len(tok.container) = 0 THEN [kind |-> "Sealed"]
    ELSE
      LET block == Build(block_builder, tok.symbols)
      IN  IF block.index # 1 + Len(tok.blocks)
          THEN [kind     |-> "InvalidBlockIndex",
                expected |-> 1 + Len(tok.blocks),
                found    |-> block.index]
          ELSE [kind  |-> "Ok",
                token |-> [authority |-> tok.authority,
                           blocks    |-> <<block>>,
                           symbols   |-> tok.symbols \o block.symbols,
                           container |->
                              <<SerializedAppend(tok.container[1], keypair,
                                                 block)>>]]

\* append that merges the new symbols in front of the table
BiscuitAppendSymbolsFirst(tok, keypair, block_builder) ==
    IF Len(tok.container) = 0 THEN [kind |-> "Sealed"]
    ELSE
      LET block == Build(block_builder, tok.symbols)
      IN  IF block.index # 1 + Len(tok.blocks)
          THEN [kind     |-> "InvalidBlockIndex",
                expected |-> 1 + Len(tok.blocks),
                found    |-> block.index]
          ELSE [kind  |-> "Ok",
                token |-> [authority |-> tok.authority,
                           blocks    |-> Append(tok.blocks, block),
                           symbols   |-> block.symbols \o tok.symbols,
                           container |->
                              <<SerializedAppend(tok.container[1], keypair,
                                                 block)>>]]

\* append that tests the block's index before anything else
BiscuitAppendIndexFirst(tok, keypair, block_builder) ==
    IF block_builder.index # 1 + Len(tok.blocks)
    THEN [kind     |-> "InvalidBlockIndex",
          expected |-> 1 + Len(tok.blocks),
          found    |-> block_builder.index]
    ELSE IF Len(tok.container) = 0 THEN [kind |-> "Sealed"]
    ELSE
      LET block == Build(block_builder, tok.symbols)
      IN  [kind  |-> "Ok",
           token |-> [authority |-> tok.authority,
                      blocks    |-> Append(tok.blocks, block),
                      symbols   |-> tok.symbols \o block.symbols,
                      container |->
                         <<SerializedAppend(tok.container[1], keypair,
                                            block)>>]]

\* Biscuit::append
BiscuitAppend(tok, keypair, block_builder) ==
    IF Len(tok.container) = 0 THEN [kind |-> "Sealed"]
    ELSE
      LET block == Build(block_builder, tok.symbols)
      IN  IF ~IsDisjoint(tok.symbols, block.symbols)
          THEN [kind |-> "SymbolTableOverlap"]
          ELSE IF block.index # 1 + Len(tok.blocks)
          THEN [kind     |-> "InvalidBlockIndex",
                expected |-> 1 + Len(tok.blocks),
                found    |-> block.index]
          ELSE [kind  |-> "Ok",
                token |-> [authority |-> tok.authority,
                           blocks    |-> Append(tok.blocks, block),
                           symbols   |-> tok.symbols \o block.symbols,
                           container |->
                              <<SerializedAppend(tok.container[1], keypair,
                                                 block)>>]]

\* check_root_key with the test of verify_sealed: a signed container is refused
CheckRootKeyInverted(tok, root) ==
    IF Len(tok.container) # 0 THEN [kind |-> "Sealed"]
    ELSE [kind |-> "Ok"]

\* Biscuit::check_root_key
CheckRootKey(tok, root) ==
    IF Len(tok.container) = 0 THEN [kind |-> "Sealed"]
    ELSE LET r == SerializedCheckRootKey(tok.container[1], root)
         IN  IF r = "Ok" THEN [kind |-> "Ok"]
             ELSE [kind |-> "Format", format |-> r]

(***************************************************************************)
(* The wire.  The schema is a collaborator (spec 4.7): a block's bytes are *)
(* the tuple of its fields, a container's bytes the tuple of its parts,    *)
(* and anything of another shape does not decode.                          *)
(***************************************************************************)
\* schema::Block::decode, then proto_block_to_token_block
Decode(bytes) ==
    IF Len(bytes) # 6
    THEN [kind |-> "Format", format |-> "BlockDeserializationError"]
    ELSE [kind  |-> "Ok",
          block |-> [index   |-> bytes[1], symbols |-> bytes[2],
                     facts   |-> bytes[3], rules   |-> bytes[4],
                     caveats |-> bytes[5], context |-> bytes[6]]]

\* SerializedBiscuit::to_vec
SerializedToVec(container) ==
    <<container.authority, container.blocks, container.keys,
      container.signature>>

\* SerializedBiscuit::from_slice
SerializedFromSlice(slice) ==
    IF Len(slice) # 4
    THEN [kind |-> "Format", format |-> "DeserializationError"]
    ELSE [kind |-> "Ok",
          container |-> [authority |-> slice[1], blocks    |-> slice[2],
                         keys      |-> slice[3], signature |-> slice[4]]]

\* SerializedBiscuit::serialized_size: the length of the encoding, one unit
\* for each block, key and signature part
SerializedSize(container) ==
    1 + Len(container.blocks) + Len(container.keys) + Len(container.signature)

\* the keyed hash of the sealed container (spec 4.4) over the block bytes
Mac(secret, messages) == [secret |-> secret, messages |-> messages]

\* sealed::SealedBiscuit::from_token
SealedFromToken(tok, secret) ==
    LET authority == Encode(tok.authority)
        blocks    == [p \in 1..Len(tok.blocks) |-> Encode(tok.blocks[p])]
    IN  [authority |-> authority,
         blocks    |-> blocks,
         signature |-> Mac(secret, <<authority>> \o blocks)]

\* sealed::SealedBiscuit::to_vec
SealedToVec(sealed) == <<sealed.authority, sealed.blocks, sealed.signature>>

\* from_slice that decodes and does not recompute the MAC
SealedFromSliceUnchecked(slice, secret) ==
    IF Len(slice) # 3
    THEN [kind |-> "Format", format |-> "DeserializationError"]
    ELSE [kind |-> "Ok",
          container |-> [authority |-> slice[1], blocks |-> slice[2],
                         signature |-> slice[3]]]

\* sealed::SealedBiscuit::from_slice: decodes and recomputes the MAC
SealedFromSlice(slice, secret) ==
    IF Len(slice) # 3
    THEN [kind |-> "Format", format |-> "DeserializationError"]
    ELSE IF slice[3] # Mac(secret, <<slice[1]>> \o slice[2])
    THEN [kind |-> "Format", format |-> "SealedSignature"]
    ELSE [kind |-> "Ok",
          container |-> [authority |-> slice[1], blocks |-> slice[2],
                         signature |-> slice[3]]]

\* the block decoding and index validation that from_with_symbols and
\* from_sealed_with_symbols share, and the merge of the symbol tables;
\* kept is the container field of the token made
FromContainer(container, symbols, kept) ==
    LET authority == Decode(container.authority)
        deser(p)  == Decode(container.blocks[p])
        index(p)  == p
        failing   == {p \in 1..Len(container.blocks) :
                         \/ deser(p).kind # "Ok"
                         \/ deser(p).block.index # index(p)}
        first     == CHOOSE p \in failing : \A q \in failing : p <= q
        blocks    == [p \in 1..Len(container.blocks) |-> deser(p).block]
    IN  IF authority.kind # "Ok" THEN authority
        ELSE IF authority.block.index # 0
        THEN [kind |-> "InvalidAuthorityIndex", got |-> authority.block.index]
        ELSE IF failing # {}
        THEN IF deser(first).kind # "Ok" THEN deser(first)
             ELSE [kind     |-> "InvalidBlockIndex",
                   expected |-> index(first),
                   found    |-> deser(first).block.index]
        ELSE [kind  |-> "Ok",
              token |-> [authority |-> authority.block,
                         blocks    |-> blocks,
                         symbols   |-> symbols \o authority.block.symbols \o
                                       Concat([p \in 1..Len(blocks) |->
                                                  blocks[p].symbols]),
                         container |-> kept]]

\* from_with_symbols that ignores the table it is given, as from does
from_with_default_symbols(slice, symbols) ==
    LET c == SerializedFromSlice(slice)
    IN  IF c.kind # "Ok" THEN c
        ELSE FromContainer(c.container, default_symbol_table, <<c.container>>)

\* Biscuit::from_with_symbols
from_with_symbols(slice, symbols) ==
    LET c == SerializedFromSlice(slice)
    IN  IF c.kind # "Ok" THEN c
        ELSE FromContainer(c.container, symbols, <<c.container>>)

\* Biscuit::from
from(slice) == from_with_symbols(slice, default_symbol_table)

\* Biscuit::from_sealed_with_symbols
from_sealed_with_symbols(slice, secret, symbols) ==
    LET c == SealedFromSlice(slice, secret)
    IN  IF c.kind # "Ok" THEN c
        ELSE FromContainer(c.container, symbols, <<>>)

\* Biscuit::from_sealed
from_sealed(slice, secret) ==
    from_sealed_with_symbols(slice, secret, default_symbol_table)

\* to_vec that encodes the blocks again when the container is absent
to_vec_reencoded(tok) ==
    IF Len(tok.container) = 0
    THEN [kind |-> "Ok", bytes |-> SealedToVec(SealedFromToken(tok, ""))]
    ELSE [kind |-> "Ok", bytes |-> SerializedToVec(tok.container[1])]

\* Biscuit::to_vec
to_vec(tok) ==
    IF Len(tok.container) = 0 THEN [kind |-> "InternalError"]
    ELSE [kind |-> "Ok", bytes |-> SerializedToVec(tok.container[1])]

\* Biscuit::serialized_size
serialized_size(tok) ==
    IF Len(tok.container) = 0 THEN [kind |-> "InternalError"]
    ELSE [kind |-> "Ok", size |-> SerializedSize(tok.container[1])]

\* Biscuit::seal
seal(tok, secret) ==
    [kind |-> "Ok", bytes |-> SealedToVec(SealedFromToken(tok, secret))]

(***************************************************************************)
(* Authorization: generate_world (the seeding gate) and check.             *)
(***************************************************************************)
\* the index `i` that blocks.iter().enumerate() gives the block at position
\* p of the block sequence (positions are counted from 1 here)
EnumerateIndex(p) == p - 1

\* predicate.ids[0] of a fact or of a rule head
FirstTerm(predicate) == predicate.ids[1]

\* the authority-fact test of generate_world
AuthorityFactRefused(f, ambient_index) ==
    FirstTerm(f.predicate) = Symbol(ambient_index)

\* the block-fact test of generate_world
BlockFactRefused(f, authority_index, ambient_index) ==
    \/ FirstTerm(f.predicate) = Symbol(authority_index)
    \/ FirstTerm(f.predicate) = Symbol(ambient_index)

\* the block-rule test of generate_world
BlockRuleRefused(r, authority_index, ambient_index) ==
    \/ FirstTerm(r.head) = Symbol(authority_index)
    \/ FirstTerm(r.head) = Symbol(ambient_index)

\* a thread panic: unwrap() on None, or ids[0] on an empty term list
Panic == [kind |-> "panic"]

\* a fact or rule that generate_world let through
Pass == [kind |-> "pass"]

\* one turn of the loop over the authority facts
AuthorityFactStep(f, ambient_index) ==
    IF Len(f.predicate.ids) = 0 THEN Panic
    ELSE IF AuthorityFactRefused(f, ambient_index)
    THEN [kind |-> "InvalidAuthorityFact"]
    ELSE Pass

\* one turn of the loop over the facts of the block at position p
BlockFactStep(f, p, authority_index, ambient_index) ==
    IF Len(f.predicate.ids) = 0 THEN Panic
    ELSE IF BlockFactRefused(f, authority_index, ambient_index)
    THEN [kind |-> "InvalidBlockFact", block_id |-> EnumerateIndex(p)]
    ELSE Pass

\* one turn of the loop over the rules of the block at position p
BlockRuleStep(r, p, authority_index, ambient_index) ==
    IF Len(r.head.ids) = 0 THEN Panic
    ELSE IF BlockRuleRefused(r, authority_index, ambient_index)
    THEN [kind |-> "InvalidBlockRule", block_id |-> EnumerateIndex(p)]
    ELSE Pass

\* the turns of generate_world's loops in the order they are taken: the
\* authority facts, then for each block its facts and then its rules
GateSteps(tok, authority_index, ambient_index) ==
    [k \in 1..Len(tok.authority.facts) |->
        AuthorityFactStep(tok.authority.facts[k], ambient_index)]
    \o Concat([p \in 1..Len(tok.blocks) |->
         [k \in 1..Len(tok.blocks[p].facts) |->
             BlockFactStep(tok.blocks[p].facts[k], p,
                           authority_index, ambient_index)]
         \o
         [k \in 1..Len(tok.blocks[p].rules) |->
             BlockRuleStep(tok.blocks[p].rules[k], p,
                           authority_index, ambient_index)]])

\* the last turn that returns or panics, Pass when every turn passes
LastFailure(steps) ==
    LET failing == {i \in 1..Len(steps) : steps[i] # Pass}
    IN  IF failing = {} THEN Pass
        ELSE steps[CHOOSE i \in failing : \A j \in failing : i >= j]

\* the first turn that returns or panics, Pass when every turn passes
FirstFailure(steps) ==
    LET failing == {i \in 1..Len(steps) : steps[i] # Pass}
    IN  IF failing = {} THEN Pass
        ELSE steps[CHOOSE i \in failing : \A j \in failing : i <= j]

\* a World filled from the authority block alone
AuthorityWorld(tok) ==
    [facts |-> Range(tok.authority.facts), rules |-> tok.authority.rules]

\* the World generate_world has filled when every turn passed, before its
\* run: the facts and rules of the authority block, then of each block
SeededWorld(tok) ==
    [facts |-> Range(tok.authority.facts) \cup
               UNION {Range(tok.blocks[p].facts) : p \in 1..Len(tok.blocks)},
     rules |-> tok.authority.rules \o
               Concat([p \in 1..Len(tok.blocks) |-> tok.blocks[p].rules])]

\* Biscuit::generate_world
generate_world(tok, symbols) ==
    LET authority_index == SymGet(symbols, "authority")
        ambient_index   == SymGet(symbols, "ambient")
        failure == FirstFailure(GateSteps(tok, authority_index, ambient_index))
    IN  IF authority_index = NoSymbol \/ ambient_index = NoSymbol THEN Panic
        ELSE IF failure # Pass THEN failure
        ELSE [kind |-> "Ok", world |-> Run(SeededWorld(tok))]

\* Biscuit::caveats
caveats(tok) ==
    <<tok.authority.caveats>> \o
       [p \in 1..Len(tok.blocks) |-> tok.blocks[p].caveats]

\* a caveat also taken as successful when a fact equal to the head of one of
\* its queries is in the World
SuccessfulByHead(world, cav) ==
    \E q \in 1..Len(cav.queries) :
       \/ QueryRule(world, cav.queries[q]) # {}
       \/ [predicate |-> cav.queries[q].head] \in world.facts

\* a caveat is successful iff one of its queries has a non-empty result
Successful(world, cav) ==
    \E q \in 1..Len(cav.queries) : QueryRule(world, cav.queries[q]) # {}

FailedBlockCaveat(block_id, caveat_id) ==
    [kind |-> "Block", block_id |-> block_id, caveat_id |-> caveat_id]

FailedVerifierCaveat(caveat_id) ==
    [kind |-> "Verifier", caveat_id |-> caveat_id]

\* the failures of the authority block's caveats, in caveat order
AuthorityErrors(world, tok) ==
    LET cs == tok.authority.caveats
    IN  Concat([j \in 1..Len(cs) |->
                  IF Successful(world, cs[j]) THEN <<>>
                  ELSE <<FailedBlockCaveat(0, j - 1)>>])

\* the verifier's caveats evaluated once per appended block, as in the
\* per-block helper Block::check
VerifierErrorsPerBlock(world, tok, verifier_caveats) ==
    Concat([p \in 1..Len(tok.blocks) |->
              Concat([j \in 1..Len(verifier_caveats) |->
                        IF Successful(world, verifier_caveats[j]) THEN <<>>
                        ELSE <<FailedVerifierCaveat(j - 1)>>])])

\* the failures of the verifier's caveats, in caveat order
VerifierErrors(world, tok, verifier_caveats) ==
    Concat([j \in 1..Len(verifier_caveats) |->
              IF Successful(world, verifier_caveats[j]) THEN <<>>
              ELSE <<FailedVerifierCaveat(j - 1)>>])

\* the failures of the caveats of the block at position p, in caveat order
BlockErrors(world, tok, p) ==
    LET cs == tok.blocks[p].caveats
    IN  Concat([j \in 1..Len(cs) |->
                  IF Successful(world, cs[j]) THEN <<>>
                  ELSE <<FailedBlockCaveat(EnumerateIndex(p), j - 1)>>])

\* the World of check after ambient injection, before the second run
InjectedWorld(base, facts, rules) ==
    [facts |-> base.facts \cup Range(facts), rules |-> base.rules \o rules]

\* a check that does not run again after ambient injection
AmbientWorldNoRun(base, facts, rules) == InjectedWorld(base, facts, rules)

\* the World of check after ambient injection and the second run
AmbientWorld(base, facts, rules) == Run(InjectedWorld(base, facts, rules))

\* the answers kept only when non-empty, as in the per-block helper
\* Block::check
QueryResultsNonEmpty(world, queries) ==
    [name \in {n \in DOMAIN queries : QueryRule(world, queries[n]) # {}} |->
        QueryRule(world, queries[name])]

\* the answers to the verifier's named queries
QueryResults(world, queries) ==
    [name \in DOMAIN queries |-> QueryRule(world, queries[name])]

\* check returning at the first failed caveat
check_short_circuit(tok, symbols, ambient_facts, ambient_rules, verifier_caveats, queries) ==
    LET gen == generate_world(tok, symbols)
    IN  IF gen.kind # "Ok" THEN gen
        ELSE
          LET world  == AmbientWorld(gen.world, ambient_facts, ambient_rules)
              errors == AuthorityErrors(world, tok)
                     \o VerifierErrors(world, tok, verifier_caveats)
                     \o Concat([p \in 1..Len(tok.blocks) |->
                                  BlockErrors(world, tok, p)])
          IN  IF Len(errors) = 0
              THEN [kind |-> "Ok",
                    query_results |-> QueryResults(world, queries)]
              ELSE [kind |-> "FailedCaveats", errors |-> <<Head(errors)>>]

\* check with the failure list assigned, not extended, by each block's pass
check_overwrite(tok, symbols, ambient_facts, ambient_rules, verifier_caveats, queries) ==
    LET gen == generate_world(tok, symbols)
    IN  IF gen.kind # "Ok" THEN gen
        ELSE
          LET world  == AmbientWorld(gen.world, ambient_facts, ambient_rules)
              errors == IF Len(tok.blocks) = 0
                        THEN AuthorityErrors(world, tok)
                             \o VerifierErrors(world, tok, verifier_caveats)
                        ELSE BlockErrors(world, tok, Len(tok.blocks))
          IN  IF Len(errors) = 0
              THEN [kind |-> "Ok",
                    query_results |-> QueryResults(world, queries)]
              ELSE [kind |-> "FailedCaveats", errors |-> errors]

\* check with the verifier's caveats evaluated before the authority block's
check_verifier_first(tok, symbols, ambient_facts, ambient_rules, verifier_caveats, queries) ==
    LET gen == generate_world(tok, symbols)
    IN  IF gen.kind # "Ok" THEN gen
        ELSE
          LET world  == AmbientWorld(gen.world, ambient_facts, ambient_rules)
              errors == VerifierErrors(world, tok, verifier_caveats)
                     \o AuthorityErrors(world, tok)
                     \o Concat([p \in 1..Len(tok.blocks) |->
                                  BlockErrors(world, tok, p)])
          IN  IF Len(errors) = 0
              THEN [kind |-> "Ok",
                    query_results |-> QueryResults(world, queries)]
              ELSE [kind |-> "FailedCaveats", errors |-> errors]

\* Biscuit::check
check(tok, symbols, ambient_facts, ambient_rules, verifier_caveats, queries) ==
    LET gen == generate_world(tok, symbols)
    IN  IF gen.kind # "Ok" THEN gen
        ELSE
          LET world  == AmbientWorld(gen.world, ambient_facts, ambient_rules)
              errors == AuthorityErrors(world, tok)
                     \o VerifierErrors(world, tok, verifier_caveats)
                     \o Concat([p \in 1..Len(tok.blocks) |->
                                  BlockErrors(world, tok, p)])
              query_results == QueryResults(world, queries)
          IN  IF Len(errors) = 0
              THEN [kind |-> "Ok", query_results |-> query_results]
              ELSE [kind |-> "FailedCaveats", errors |-> errors]

\* Biscuit::verify: the container check, then Verifier::new, which seeds its
\* base World from the token and so reports the seeding gate's error
BiscuitVerify(tok, root) ==
    LET key == CheckRootKey(tok, root)
        gen == generate_world(tok, tok.symbols)
    IN  IF key.kind # "Ok" THEN key
        ELSE IF gen.kind = "panic" THEN gen
        ELSE IF gen.kind # "Ok" THEN [kind |-> "FailedLogic", logic |-> gen]
        ELSE [kind |-> "Ok"]

\* verify_sealed without the test of the container
verify_sealed_unchecked(tok) ==
    LET gen == generate_world(tok, tok.symbols)
    IN  IF gen.kind = "panic" THEN gen
        ELSE IF gen.kind # "Ok" THEN [kind |-> "FailedLogic", logic |-> gen]
        ELSE [kind |-> "Ok"]

\* Biscuit::verify_sealed
verify_sealed(tok) ==
    LET gen == generate_world(tok, tok.symbols)
    IN  IF Len(tok.container) # 0 THEN [kind |-> "InternalError"]
        ELSE IF gen.kind = "panic" THEN gen
        ELSE IF gen.kind # "Ok" THEN [kind |-> "FailedLogic", logic |-> gen]
        ELSE [kind |-> "Ok"]

\* Verifier::verify: the verifier's facts, rules, caveats and queries are
\* converted under the token's table, extended by their own strings, and
\* handed to Biscuit::check
VerifierSymbols(tok, v) ==
    SymInsertAll(tok.symbols,
          Concat([i \in 1..Len(v.facts) |-> FactStrs(v.facts[i])])
       \o Concat([i \in 1..Len(v.rules) |-> RuleStrs(v.rules[i])])
       \o Concat([i \in 1..Len(v.caveats) |-> CaveatStrs(v.caveats[i])])
       \o Concat([i \in 1..Len(v.queries) |-> RuleStrs(v.queries[i].rule)]))

VerifierFacts(tok, v) ==
    [i \in 1..Len(v.facts) |-> ConvFact(VerifierSymbols(tok, v), v.facts[i])]

VerifierRules(tok, v) ==
    [i \in 1..Len(v.rules) |-> ConvRule(VerifierSymbols(tok, v), v.rules[i])]

VerifierCaveats(tok, v) ==
    [i \in 1..Len(v.caveats) |->
        ConvCaveat(VerifierSymbols(tok, v), v.caveats[i])]

VerifierQueries(tok, v) ==
    [name \in {v.queries[i].name : i \in 1..Len(v.queries)} |->
        ConvRule(VerifierSymbols(tok, v),
                 (CHOOSE q \in Range(v.queries) : q.name = name).rule)]

VerifierVerify(tok, v) ==
    check(tok, VerifierSymbols(tok, v), VerifierFacts(tok, v),
          VerifierRules(tok, v), VerifierCaveats(tok, v),
          VerifierQueries(tok, v))

(***************************************************************************)
(* The inputs of the exploration: authority blocks, appended blocks and    *)
(* verifier inputs, after the scenarios of the test suite.                 *)
(***************************************************************************)
Content(facts, rules, cavs) == [facts |-> facts, rules |-> rules, caveats |-> cavs]

right(file, op) == fact("right", <<s("authority"), s(file), s(op)>>)
resource(file) == fact("resource", <<s("ambient"), s(file)>>)
operation(op) == fact("operation", <<s("ambient"), s(op)>>)
revocation_id(id) == fact("revocation_id", <<int(id)>>)

\* tests::basic, caveat1 and caveat2
caveat1 ==
    caveat(<<rule("caveat1", <<var("resource")>>,
                  <<pred("resource", <<s("ambient"), var("resource")>>),
                    pred("operation", <<s("ambient"), s("read")>>),
                    pred("right", <<s("authority"), var("resource"),
                                    s("read")>>)>>)>>)

caveat2 ==
    caveat(<<rule("caveat2", <<s("file1")>>,
                  <<pred("resource", <<s("ambient"), s("file1")>>)>>)>>)

\* tests::caveat_requires_fact_in_future_block
requires_name ==
    caveat(<<rule("requires_name", <<var("name")>>,
                  <<pred("name", <<var("name")>>)>>)>>)

\* tests::caveat_head_name
caveat_head_name ==
    caveat(<<rule("caveat1", <<s("test")>>,
                  <<pred("resource", <<s("ambient"), s("hello")>>)>>)>>)

\* a chain of rules that needs more adding passes than World::run allows:
\* step(#tag, k) <- step(#tag, k - 1)
step(tag, k) == fact("step", <<s(tag), int(k)>>)

step_chain(tag) ==
    [k \in 1..(RunLimit + 2) |->
        rule("step", <<s(tag), int(k)>>,
             <<pred("step", <<s(tag), int(k - 1)>>)>>)]

\* Verifier::revocation_check
revocation_check(ids) ==
    caveat(<<constrained_rule("revocation_check", <<var("id")>>,
                              <<pred("revocation_id", <<var("id")>>)>>,
                              <<[id |-> "id", kind |-> "int_not_in",
                                 set |-> ids]>>)>>)

AuthorityContents ==
    <<Content(<<right("file1", "read")>>, <<>>, <<>>),
      Content(<<right("file1", "read")>>, <<>>, <<requires_name>>),
      Content(<<right("file1", "read"), revocation_id(1)>>,
              <<rule("operation", <<s("ambient"), s("read")>>,
                     <<pred("right", <<s("authority"), s("file1"),
                                       s("read")>>)>>)>>,
              <<caveat(<<rule("may_read", <<s("read")>>,
                              <<pred("operation",
                                     <<s("ambient"), s("read")>>)>>)>>),
                requires_name>>),
      Content(<<fact("flag", <<>>)>>, <<>>, <<>>),
      Content(<<step("authority", 0)>>, step_chain("authority"), <<>>),
      Content(<<>>, <<>>, <<caveat_head_name>>),
      Content(<<right("file1", "read"), resource("file1")>>, <<>>,
              <<requires_name>>)>>

BlockContents ==
    <<Content(<<>>, <<>>, <<caveat1, caveat2>>),
      Content(<<fact("name", <<s("test")>>), revocation_id(1234)>>, <<>>, <<>>),
      Content(<<revocation_id(5678)>>,
              <<rule("right", <<var("tag"), s("file2"), s("read")>>,
                     <<pred("right", <<var("tag"), s("file1"),
                                       s("read")>>)>>)>>,
              <<>>),
      Content(<<right("file2", "read")>>, <<>>, <<caveat2>>),
      Content(<<>>,
              <<rule("operation", <<s("ambient"), s("read")>>,
                     <<pred("name", <<s("test")>>)>>)>>,
              <<>>),
      Content(<<fact("seen", <<s("file2"), s("ambient")>>)>>,
              <<rule("resource", <<var("tag"), var("file")>>,
                     <<pred("seen", <<var("file"), var("tag")>>)>>)>>,
              <<>>),
      Content(<<>>,
              <<rule("done", <<>>,
                     <<pred("right", <<s("authority"), s("file1"),
                                       s("read")>>)>>)>>,
              <<>>),
      Content(<<fact("caveat1", <<s("test")>>)>>, <<>>, <<>>),
      Content(<<right("file2", "read")>>,
              <<rule("operation", <<s("ambient"), s("read")>>,
                     <<pred("name", <<s("test")>>)>>)>>,
              <<caveat2>>),
      Content(<<>>,
              <<rule("valid", <<var("file")>>,
                     <<pred("resource", <<s("ambient"), var("file")>>)>>)>>,
              <<>>)>>

Query(name, r) == [name |-> name, rule |-> r]

Input(facts, rules, cavs, queries) ==
    [facts |-> facts, rules |-> rules, caveats |-> cavs, queries |-> queries]

revocation_id_verif ==
    rule("revocation_id_verif", <<var("id")>>,
         <<pred("revocation_id", <<var("id")>>)>>)

VerifierInputs ==
    <<Input(<<resource("file1"), operation("read")>>, <<>>, <<>>,
            <<Query("revocation_id_verif", revocation_id_verif)>>),
      Input(<<resource("file2"), operation("read")>>, <<>>,
            <<caveat(<<rule("right", <<s("right")>>,
                            <<pred("right", <<s("authority"), s("file2"),
                                              s("read")>>)>>)>>)>>,
            <<Query("rights",
                    rule("rights", <<var("file")>>,
                         <<pred("right", <<s("authority"), var("file"),
                                           s("read")>>)>>))>>),
      Input(<<resource("file1"), operation("read")>>, <<>>,
            <<revocation_check({1234})>>,
            <<Query("revocation_id_verif", revocation_id_verif)>>),
      Input(<<resource("file2")>>,
            <<rule("operation", <<s("ambient"), s("read")>>,
                   <<pred("resource", <<s("ambient"), s("file2")>>)>>)>>,
            <<caveat(<<rule("no_such", <<s("file3")>>,
                            <<pred("right", <<s("authority"), s("file3"),
                                              s("read")>>)>>)>>),
              caveat(<<rule("named", <<var("name")>>,
                            <<pred("name", <<var("name")>>)>>),
                       rule("is_read", <<s("read")>>,
                            <<pred("operation",
                                   <<s("ambient"), s("write")>>)>>)>>)>>,
            <<Query("resources",
                    rule("resources", <<var("file")>>,
                         <<pred("resource", <<s("ambient"), var("file")>>)>>)),
              Query("revocation_id_verif", revocation_id_verif)>>),
      Input(<<>>, <<>>, <<>>, <<>>),
      Input(<<resource("file1"), operation("read")>>, <<>>,
            <<caveat(<<rule("may_read_file1", <<s("file1")>>,
                            <<pred("right", <<s("authority"), s("file1"),
                                              s("read")>>)>>)>>)>>,
            <<Query("rights",
                    rule("rights", <<var("file")>>,
                         <<pred("right", <<s("authority"), var("file"),
                                           s("read")>>)>>))>>),
      Input(<<step("ambient", 0)>>, step_chain("ambient"), <<>>, <<>>)>>

\* a base table other than the default one, as builder_with_symbols and
\* from_with_symbols accept
custom_symbol_table == <<"right", "file1">>

Tables == {default_symbol_table, custom_symbol_table}

\* the secrets of sealed tokens (tests::sealed_token)
Secrets == {"secret key", "wrong key"}

NoSecret == ""

\* the keypairs of the exploration
NumKeys == 2
Keys == 1..NumKeys

(***************************************************************************)
(* Tampering with a signed container in transit (spec 4.3, 8.9): block     *)
(* bytes and the key list can be rewritten by anyone, the aggregated       *)
(* signature cannot be recomputed without the signers' secrets.            *)
(***************************************************************************)
Remove(seq, i) == [k \in 1..(Len(seq) - 1) |-> IF k < i THEN seq[k] ELSE seq[k + 1]]

Swap(seq, i, j) ==
    [k \in 1..Len(seq) |-> IF k = i THEN seq[j] ELSE IF k = j THEN seq[i]
                           ELSE seq[k]]

\* bytes that are no encoding of a block
Garbage == <<"garbage">>

\* the bytes of a block without its facts, rules and caveats
Stripped(bytes) ==
    Encode([Decode(bytes).block EXCEPT !.facts = <<>>, !.rules = <<>>,
                                       !.caveats = <<>>])

\* another chain: a token of another issuer with one appended block
OtherChain ==
    LET content   == [index |-> 0, facts |-> <<right("file2", "read")>>,
                      rules |-> <<>>, caveats |-> <<>>]
        authority == Build(content, default_symbol_table)
        t0 == BiscuitNew(NumKeys, default_symbol_table, authority).token
        t1 == BiscuitAppend(t0, NumKeys,
                            CreateBlock(t0, Content(<<>>, <<>>, <<>>))).token
    IN  t1.container[1]

\* the containers made from c by replacing the bytes of one block, removing
\* a block, reordering two blocks or splicing in a block of another chain,
\* with the key list left alone or rewritten to match
Tampered(c) ==
    LET n == Len(c.blocks)
    IN  ( {[c EXCEPT !.authority = bytes] :
              bytes \in {Garbage, Stripped(c.authority), OtherChain.authority}}
          \cup
          UNION {{[c EXCEPT !.blocks[p] = bytes] :
                    bytes \in {Garbage, Stripped(c.blocks[p]),
                               OtherChain.blocks[1]}} : p \in 1..n}
          \cup
          {[c EXCEPT !.blocks[p] = OtherChain.blocks[1],
                     !.keys[p + 1] = OtherChain.keys[2]] : p \in 1..n}
          \cup
          {[c EXCEPT !.blocks = Remove(@, p)] : p \in 1..n}
          \cup
          {[c EXCEPT !.blocks = Remove(@, p), !.keys = Remove(@, p + 1)] :
              p \in 1..n}
          \cup
          {[c EXCEPT !.blocks = Swap(@, p, q)] : p, q \in 1..n}
          \cup
          {[c EXCEPT !.authority = c.blocks[p], !.blocks[p] = c.authority] :
              p \in 1..n}
          \cup
          {[c EXCEPT !.blocks = Swap(@, p, q),
                     !.keys = Swap(@, p + 1, q + 1)] : p, q \in 1..n}
          \cup
          {[c EXCEPT !.blocks = Append(@, OtherChain.blocks[1]),
                     !.keys = Append(@, OtherChain.keys[2])]} )
        \ {c}

(***************************************************************************)
(* The state machine.  token holds the current Biscuit (a sequence of one, *)
(* empty when construction failed), parent the token the last successful  *)
(* append was called on (empty before the first), rootkey the keypair      *)
(* given to new, vin the verifier input of the last check (0: none) and    *)
(* result the outcome of the last operation.  basetable is the table the  *)
(* current token was made over, wire the bytes last serialized (with the   *)
(* token they were made from) and forged tells that the current token was  *)
(* read from bytes rewritten in transit.                                   *)
(***************************************************************************)
Tok == token[1]

\* the outcome of an operation that returns a token, without the token
Outcome(r) == IF r.kind = "Ok" THEN [kind |-> "Ok"] ELSE r

\* a block made over build_table with the given index, then Biscuit::new
\* over new_table; BiscuitBuilder::build is the case of index 0 and of one
\* table for both
InitBuild(roots, authorities, indexes, build_tables, new_tables) ==
    \E root \in roots, a \in authorities, i \in indexes,
       build_table \in build_tables, new_table \in new_tables :
       LET builder == [index   |-> i,
                       facts   |-> AuthorityContents[a].facts,
                       rules   |-> AuthorityContents[a].rules,
                       caveats |-> AuthorityContents[a].caveats]
           block == Build(builder, build_table)
           r == BiscuitNew(root, new_table, block)
       IN  /\ token = IF r.kind = "Ok" THEN <<r.token>> ELSE <<>>
           /\ parent = <<>>
           /\ rootkey = root
           /\ vin = 0
           /\ result = [op |-> "new", kind |-> r.kind, out |-> Outcome(r),
                        block |-> block, symbols |-> new_table]
           /\ basetable = new_table
           /\ wire = <<>>
           /\ forged = FALSE
           /\ db = NewWorld
           /\ calls = <<>>

\* BiscuitBuilder::build: the authority block at index 0, then Biscuit::new
InitWith(roots, authorities) ==
    InitBuild(roots, authorities, {0}, {default_symbol_table},
              {default_symbol_table})

\* append of a block builder whose index is one of indexes (a builder made
\* by create_block of this token or of another one) under a keypair; a
\* token is extended before it is sent, and of the tokens read from the wire
\* only the sealed ones are tried
DoAppendBuilder(keypairs, contents, indexes) ==
    /\ Len(token) = 1
    /\ Len(Tok.blocks) < MaxBlocks
    /\ Len(wire) = 0 \/ Len(Tok.container) = 0
    /\ \E keypair \in keypairs, b \in contents, i \in indexes :
          LET builder == [CreateBlock(Tok, BlockContents[b]) EXCEPT !.index = i]
              r == BiscuitAppend(Tok, keypair, builder)
          IN  /\ token' = IF r.kind = "Ok" THEN <<r.token>> ELSE token
              /\ parent' = IF r.kind = "Ok" THEN token ELSE parent
              /\ result' = [op |-> "append", kind |-> r.kind,
                            out |-> Outcome(r), index |-> i,
                            content |-> b]
              /\ vin' = 0
              /\ UNCHANGED <<rootkey, basetable, wire, forged, db, calls>>

\* create_block, the builder's content, then append under a keypair
DoAppend(keypairs, contents) ==
    /\ Len(token) = 1
    /\ DoAppendBuilder(keypairs, contents, {CreateBlock(Tok, Content(<<>>, <<>>, <<>>)).index})

\* verify(root) for a root public key
DoVerify(keypairs) ==
    \E k \in keypairs :
       /\ Len(token) = 1
       /\ result' = [op |-> "verify", root |-> k,
                     out |-> BiscuitVerify(Tok, PublicOf(k))]
       /\ vin' = 0
       /\ UNCHANGED <<token, parent, rootkey, basetable, wire, forged, db, calls>>

\* verify_sealed()
DoVerifySealed ==
    /\ Len(token) = 1
    /\ result' = [op |-> "verify_sealed", out |-> verify_sealed(Tok)]
    /\ vin' = 0
    /\ UNCHANGED <<token, parent, rootkey, basetable, wire, forged, db, calls>>

\* the verifier's verify(): check under one of the verifier inputs
DoCheck(inputs) ==
    \E v \in inputs :
       /\ Len(token) = 1
       /\ result' = [op |-> "check", out |-> VerifierVerify(Tok, VerifierInputs[v])]
       /\ vin' = v
       /\ UNCHANGED <<token, parent, rootkey, basetable, wire, forged, db, calls>>

\* to_vec(): the bytes go on the wire, which carries one message, and the
\* token is read back from them
DoToVec ==
    /\ Len(token) = 1
    /\ Len(wire) = 0 \/ Len(Tok.container) = 0
    /\ LET r == to_vec(Tok)
       IN  /\ result' = [op |-> "to_vec", out |-> Outcome(r)]
           /\ wire' = IF r.kind = "Ok"
                      THEN <<[form |-> "signed", bytes |-> r.bytes,
                              origin |-> Tok, base |-> basetable,
                              secret |-> NoSecret, tampered |-> forged]>>
                      ELSE wire
           /\ token' = IF r.kind = "Ok" THEN <<>> ELSE token
           /\ parent' = IF r.kind = "Ok" THEN <<>> ELSE parent
    /\ vin' = 0
    /\ UNCHANGED <<rootkey, basetable, forged, db, calls>>

\* serialized_size()
DoSerializedSize ==
    /\ Len(token) = 1
    /\ result' = [op |-> "serialized_size", out |-> serialized_size(Tok)]
    /\ vin' = 0
    /\ UNCHANGED <<token, parent, rootkey, basetable, wire, forged, db, calls>>

\* seal(secret) of a signed token: the bytes go on the wire and the token is
\* read back from them
DoSeal(secrets) ==
    \E secret \in secrets :
       /\ Len(token) = 1
       /\ Len(Tok.container) = 1
       /\ Len(wire) = 0
       /\ LET r == seal(Tok, secret)
          IN  /\ result' = [op |-> "seal", out |-> Outcome(r)]
              /\ wire' = <<[form |-> "sealed", bytes |-> r.bytes,
                            origin |-> Tok, base |-> basetable,
                            secret |-> secret, tampered |-> forged]>>
       /\ token' = <<>>
       /\ parent' = <<>>
       /\ vin' = 0
       /\ UNCHANGED <<rootkey, basetable, forged, db, calls>>

\* the signed bytes on the wire are rewritten
DoTamper ==
    /\ Len(wire) = 1
    /\ wire[1].form = "signed"
    /\ ~wire[1].tampered
    /\ \E c \in Tampered(SerializedFromSlice(wire[1].bytes).container) :
          wire' = <<[wire[1] EXCEPT !.bytes = SerializedToVec(c),
                                    !.tampered = TRUE]>>
    /\ result' = [op |-> "tamper"]
    /\ vin' = 0
    /\ UNCHANGED <<token, parent, rootkey, basetable, forged, db, calls>>

\* from_with_symbols of the bytes on the wire (from: the default table)
DoFrom(tables) ==
    \E symbols \in tables :
       /\ Len(wire) = 1
       /\ LET r == from_with_symbols(wire[1].bytes, symbols)
          IN  /\ token' = IF r.kind = "Ok" THEN <<r.token>> ELSE token
              /\ parent' = IF r.kind = "Ok" THEN <<>> ELSE parent
              /\ basetable' = IF r.kind = "Ok" THEN symbols ELSE basetable
              /\ forged' = IF r.kind = "Ok" THEN wire[1].tampered ELSE forged
              /\ result' = [op |-> "from", symbols |-> symbols,
                            out |-> Outcome(r)]
       /\ vin' = 0
       /\ UNCHANGED <<rootkey, wire, db, calls>>

\* from_sealed_with_symbols of the bytes on the wire under a secret
DoFromSealed(secrets, tables) ==
    \E secret \in secrets, symbols \in tables :
       /\ Len(wire) = 1
       /\ LET r == from_sealed_with_symbols(wire[1].bytes, secret, symbols)
          IN  /\ token' = IF r.kind = "Ok" THEN <<r.token>> ELSE token
              /\ parent' = IF r.kind = "Ok" THEN <<>> ELSE parent
              /\ basetable' = IF r.kind = "Ok" THEN symbols ELSE basetable
              /\ forged' = IF r.kind = "Ok" THEN wire[1].tampered ELSE forged
              /\ result' = [op |-> "from_sealed", symbols |-> symbols,
                            secret |-> secret, out |-> Outcome(r)]
       /\ vin' = 0
       /\ UNCHANGED <<rootkey, wire, db, calls>>

AllAuthorities == 1..3
AllBlocks == 1..6
AllInputs == 1..5

\* authorization: every block and verifier input, one root and one block key
Init == InitWith({1}, AllAuthorities)

Next ==
    \/ DoAppend({2}, AllBlocks)
    \/ DoVerify(Keys)
    \/ DoCheck(AllInputs)

Spec == Init /\ [][Next]_vars

\* the container: every keypair as root and as block key
InitKeys == InitWith(Keys, {1, 2})

NextKeys ==
    \/ DoAppend(Keys, {1, 2})
    \/ DoVerify(Keys)
    \/ DoCheck({1, 3})

SpecKeys == InitKeys /\ [][NextKeys]_vars

\* the wire: tokens made over the default and over a custom table, with
\* right and wrong indexes, serialized, sealed, rewritten and read back
InitWire == InitBuild({1}, {1, 4}, {0, 1}, Tables, Tables)

NextWire ==
    \/ DoAppendBuilder({2}, {2, 7}, 1..MaxBlocks)
    \/ DoVerify({1, 2})
    \/ DoVerifySealed
    \/ DoCheck({5, 6})
    \/ DoToVec
    \/ DoSerializedSize
    \/ DoSeal(Secrets)
    \/ DoTamper
    \/ DoFrom(Tables)
    \/ DoFromSealed(Secrets, Tables)

SpecWire == InitWire /\ [][NextWire]_vars

(***************************************************************************)
(* The authorization logic on the tokens of the test suite that exercise   *)
(* the seeding gate, the caveats on facts of later blocks and a rule chain *)
(* longer than the safety bound of the saturation.                         *)
(***************************************************************************)
LogicAuthorities == {2, 3, 5, 6, 7}

LogicBlocks == {2, 4, 5, 8, 9, 10}

LogicInputs == {1, 5, 7}

InitLogic == InitWith({1}, LogicAuthorities)

NextLogic ==
    \/ DoAppend({2}, LogicBlocks)
    \/ DoVerify({1})
    \/ DoCheck(LogicInputs)

SpecLogic == InitLogic /\ [][NextLogic]_vars

(***************************************************************************)
(* The evaluator alone: a World drawn from a small universe of facts and   *)
(* rules (a graph with its closure rules, and the rule chain that is       *)
(* longer than the safety bound), saturated by run().                      *)
(***************************************************************************)
WorldTable ==
    SymInsertAll(default_symbol_table,
                 <<"edge", "path", "step", "a", "b", "c", "x", "y", "z">>)

edge(x, y) == fact("edge", <<s(x), s(y)>>)

WorldFacts ==
    {ConvFact(WorldTable, f) :
        f \in {edge("a", "b"), edge("b", "c"), edge("c", "a"),
               fact("path", <<s("a"), s("a")>>), step("authority", 0)}}

\* path($x, $y) <- edge($x, $y);  path($x, $z) <- path($x, $y), edge($y, $z);
\* edge($y, $x) <- edge($x, $y)
WorldRules ==
    [i \in 1..3 |->
        ConvRule(WorldTable,
           <<rule("path", <<var("x"), var("y")>>,
                  <<pred("edge", <<var("x"), var("y")>>)>>),
             rule("path", <<var("x"), var("z")>>,
                  <<pred("path", <<var("x"), var("y")>>),
                    pred("edge", <<var("y"), var("z")>>)>>),
             rule("edge", <<var("y"), var("x")>>,
                  <<pred("edge", <<var("x"), var("y")>>)>>)>>[i])]

WorldChain ==
    [k \in 1..(RunLimit + 2) |->
        ConvRule(WorldTable, step_chain("authority")[k])]

\* the rules of a selection, in the order of WorldRules
Selected(picked) ==
    Concat([i \in 1..Len(WorldRules) |->
              IF i \in picked THEN <<WorldRules[i]>> ELSE <<>>])

InitWorld ==
    /\ \E facts \in SUBSET WorldFacts, picked \in SUBSET (1..Len(WorldRules)),
          chain \in {<<>>, WorldChain} :
          db = [facts |-> facts, rules |-> Selected(picked) \o chain]
    /\ token = <<>>
    /\ parent = <<>>
    /\ rootkey = 1
    /\ vin = 0
    /\ result = [op |-> "world"]
    /\ basetable = default_symbol_table
    /\ wire = <<>>
    /\ forged = FALSE
    /\ calls = <<>>

\* world.run()
DoRun ==
    /\ db' = Run(db)
    /\ result' = [op |-> "run", kind |-> RunRounds(db, 0).kind, before |-> db]
    /\ UNCHANGED <<token, parent, rootkey, vin, basetable, wire, forged,
                   calls>>

SpecWorld == InitWorld /\ [][DoRun]_vars

(***************************************************************************)
(* check, statement by statement.  A call of check holds `self` (the token *)
(* it was made on), its verifier input and its local `world` and `errors`; *)
(* several calls advance interleaved.  pc names the statement a call is    *)
(* at: "seed" (line 397), "ambient" (399-407), "authority" (416-434),      *)
(* "verifier" (437-454), "blocks" (456-476), "queries" (478-488).          *)
(***************************************************************************)
\* a query that keeps its answers in the World, as a rule of run() does
QueryRuleInserting(world, r) ==
    [world |-> [world EXCEPT !.facts = @ \cup QueryRule(world, r)],
     res   |-> QueryRule(world, r)]

\* world.query_rule(rule): the answers, and the World after the call
QueryRuleCall(world, r) ==
    [world |-> world, res |-> QueryRule(world, r)]

\* one caveat: its queries in order, up to the first with an answer
RECURSIVE CaveatFrom(_, _, _)
CaveatFrom(world, cav, q) ==
    IF q > Len(cav.queries) THEN [world |-> world, successful |-> FALSE]
    ELSE LET r == QueryRuleCall(world, cav.queries[q])
         IN  IF r.res # {} THEN [world |-> r.world, successful |-> TRUE]
             ELSE CaveatFrom(r.world, cav, q + 1)

Failure(origin, caveat_id) ==
    IF origin.kind = "Verifier" THEN FailedVerifierCaveat(caveat_id)
    ELSE FailedBlockCaveat(origin.block_id, caveat_id)

\* one loop over a caveat list: each failure is pushed to errors
RECURSIVE CaveatsFrom(_, _, _, _)
CaveatsFrom(state, cavs, origin, j) ==
    IF j > Len(cavs) THEN state
    ELSE LET r == CaveatFrom(state.world, cavs[j], 1)
         IN  CaveatsFrom(
                [world  |-> r.world,
                 errors |-> IF r.successful THEN state.errors
                            ELSE Append(state.errors, Failure(origin, j - 1))],
                cavs, origin, j + 1)

\* the loop over self.blocks.iter().enumerate()
RECURSIVE BlocksFrom(_, _, _)
BlocksFrom(state, tok, p) ==
    IF p > Len(tok.blocks) THEN state
    ELSE BlocksFrom(
            CaveatsFrom(state, tok.blocks[p].caveats,
                        [kind |-> "Block", block_id |-> EnumerateIndex(p)], 1),
            tok, p + 1)

\* the loop over the verifier's named queries, in the map's iteration order
RECURSIVE QueriesFrom(_, _, _)
QueriesFrom(state, queries, names) ==
    IF names = {} THEN state
    ELSE LET name == CHOOSE n \in names : TRUE
             r == QueryRuleCall(state.world, queries[name])
         IN  QueriesFrom(
                [world |-> r.world,
                 query_results |-> [n \in DOMAIN state.query_results \cup {name}
                                      |-> IF n = name THEN r.res
                                          ELSE state.query_results[n]]],
                queries, names \ {name})

NoResults == [n \in {} |-> {}]

\* a call that has not returned has no outcome
Running == [kind |-> "running"]

\* check(&self, ...) entered with the verifier input v
NewCall(tok, v) ==
    [self |-> tok, v |-> v, pc |-> "seed", world |-> NewWorld,
     ran |-> NewWorld, errors |-> <<>>, out |-> Running, met |-> FALSE]

\* one World shared by every call in progress
SharedWorld(cs, c) == cs[CHOOSE d \in DOMAIN cs : TRUE].world

\* the World a call reads: the local variable `world` of its own frame
CallWorld(cs, c) == cs[c].world

\* the next statement of the call c
CheckStep(cs, c) ==
    LET call  == cs[c]
        tok   == call.self
        v     == VerifierInputs[call.v]
        world == CallWorld(cs, c)
    IN  CASE call.pc = "seed" ->
               LET gen == generate_world(tok, VerifierSymbols(tok, v))
               IN  IF gen.kind # "Ok"
                   THEN [call EXCEPT !.pc = "done", !.out = gen]
                   ELSE [call EXCEPT !.pc = "ambient", !.world = gen.world]
          [] call.pc = "ambient" ->
               LET w == AmbientWorld(world, VerifierFacts(tok, v),
                                     VerifierRules(tok, v))
               IN  [call EXCEPT !.pc = "authority", !.world = w, !.ran = w]
          [] call.pc = "authority" ->
               LET st == CaveatsFrom([world |-> world, errors |-> call.errors],
                                     tok.authority.caveats,
                                     [kind |-> "Block", block_id |-> 0], 1)
               IN  [call EXCEPT !.pc = "verifier", !.world = st.world,
                                !.errors = st.errors]
          [] call.pc = "verifier" ->
               LET st == CaveatsFrom([world |-> world, errors |-> call.errors],
                                     VerifierCaveats(tok, v),
                                     [kind |-> "Verifier"], 1)
               IN  [call EXCEPT !.pc = "blocks", !.world = st.world,
                                !.errors = st.errors]
          [] call.pc = "blocks" ->
               LET st == BlocksFrom([world |-> world, errors |-> call.errors],
                                    tok, 1)
               IN  [call EXCEPT !.pc = "queries", !.world = st.world,
                                !.errors = st.errors]
          [] call.pc = "queries" ->
               LET st == QueriesFrom([world |-> world,
                                      query_results |-> NoResults],
                                     VerifierQueries(tok, v),
                                     DOMAIN VerifierQueries(tok, v))
               IN  [call EXCEPT
                      !.pc = "done", !.world = st.world,
                      !.out = IF Len(call.errors) = 0
                              THEN [kind |-> "Ok",
                                    query_results |-> st.query_results]
                              ELSE [kind |-> "FailedCaveats",
                                    errors |-> call.errors]]

CallNames == {"first", "second"}

\* a thread enters check on the current token
DoCall(inputs) ==
    \E c \in CallNames \ DOMAIN calls, v \in inputs :
       /\ Len(token) = 1
       /\ calls' = [d \in DOMAIN calls \cup {c} |->
                      IF d = c THEN NewCall(Tok, v) ELSE calls[d]]
       /\ UNCHANGED <<token, parent, rootkey, vin, result, basetable, wire,
                      forged, db>>

\* a thread executes the next statement of its call; `met` records that
\* the call took a step while another call was between its first statement
\* and its return, `ran` the World right after the call's second run
DoStep ==
    \E c \in DOMAIN calls :
       /\ calls[c].pc # "done"
       /\ calls' = [calls EXCEPT ![c] =
                      [CheckStep(calls, c) EXCEPT !.met =
                          @ \/ \E d \in DOMAIN calls \ {c} :
                                  calls[d].pc \notin {"seed", "done"}]]
       /\ UNCHANGED <<token, parent, rootkey, vin, result, basetable, wire,
                      forged, db>>

CallAuthorities == {3}

CallBlocks == {1, 2}

CallInputs == {1, 4}

InitCalls == InitWith({1}, CallAuthorities)

NextCalls ==
    \/ DoAppend({2}, CallBlocks)
    \/ DoCall(CallInputs)
    \/ DoStep

SpecCalls == InitCalls /\ [][NextCalls]_vars

(***************************************************************************)
(* Properties.  The helpers below name what a state of the machine shows:  *)
(* the last operation, the World of the last check and its failure list.   *)
(***************************************************************************)
Checked == Len(token) = 1 /\ result.op = "check"

Input_ == VerifierInputs[vin]

\* the table check was given
CheckSymbols == VerifierSymbols(Tok, Input_)

\* the seeding gate let the token of the last check pass
GatePassed == Checked /\ generate_world(Tok, CheckSymbols).kind = "Ok"

\* the World the token alone generates (before ambient injection)
TokenWorld == generate_world(Tok, CheckSymbols).world

\* the World of the last check after its second run
FinalWorld ==
    AmbientWorld(TokenWorld, VerifierFacts(Tok, Input_),
                 VerifierRules(Tok, Input_))

AuthorityTagged(f) == FirstTerm(f.predicate) = Symbol(SymGet(CheckSymbols, "authority"))

AmbientTagged(f) == FirstTerm(f.predicate) = Symbol(SymGet(CheckSymbols, "ambient"))

\* the rules of the World that no appended block contributed
ForeignRules == Range(Tok.authority.rules) \cup Range(VerifierRules(Tok, Input_))

BlockRules == UNION {Range(Tok.blocks[p].rules) : p \in 1..Len(Tok.blocks)}

\* C1 (as claimed): when check passes the seeding gate, every authority-tagged
\* fact of the saturated World is a fact of the authority block or a head
\* instantiation of a rule that no appended block contributed; a block rule
\* never adds an authority fact, also when its head's first term is a variable.
C1_AuthorityIsolation ==
    GatePassed =>
       \A f \in FinalWorld.facts :
          AuthorityTagged(f) =>
             \/ f \in Range(Tok.authority.facts)
             \/ \E r \in ForeignRules : f \in RuleApply(FinalWorld.facts, r)

\* C2 (as claimed): the World generate_world returns for a token holds no
\* ambient-tagged fact, asserted or derived by a rule of the token.
C2_AmbientIsolation ==
    GatePassed => \A f \in TokenWorld.facts : ~AmbientTagged(f)

\* the failure list of the last check (empty when it returned Ok)
Errors == IF result.out.kind = "FailedCaveats" THEN result.out.errors ELSE <<>>

CountEntries(e) == Cardinality({i \in 1..Len(Errors) : Errors[i] = e})

\* a caveat is satisfied iff one of its queries has a match in the final World
Satisfied(cav) ==
    \E q \in Range(cav.queries) : QueryRule(FinalWorld, q) # {}

LastBlock == Tok.blocks[Len(Tok.blocks)]

\* the last check's verifier input fails with FailedCaveats on the token the
\* last block was appended to
ParentFails ==
    /\ Checked
    /\ Len(parent) = 1
    /\ VerifierVerify(parent[1], Input_).kind = "FailedCaveats"

\* C3 (as claimed): if T.check fails with FailedCaveats, append(T, b).check
\* does not succeed under the same verifier input, for every accepted block b.
C3_AttenuationNeverBroadens == ParentFails => result.out.kind # "Ok"

\* C3 (amended): if T.check fails with FailedCaveats, append(T, b).check does
\* not succeed under the same verifier input, for every accepted block b that
\* carries no fact and no rule (caveats only).
C3_CaveatOnlyBlockNeverBroadens ==
    (ParentFails /\ Len(LastBlock.facts) = 0 /\ Len(LastBlock.rules) = 0)
       => result.out.kind # "Ok"

\* a caveat-only block was appended to a token that fails, and the check of
\* the longer token fails as well
C3_Witness ==
    /\ ParentFails
    /\ Len(LastBlock.facts) = 0 /\ Len(LastBlock.rules) = 0
    /\ Len(LastBlock.caveats) > 0
    /\ result.out.kind = "FailedCaveats"

\* the ids the verifier declares revoked
Revoked == {1234}

InstallsRevocation == revocation_check(Revoked) \in Range(Input_.caveats)

\* some block of the token carries revocation_id(x) with x revoked
CarriesRevoked ==
    \E f \in Range(Tok.authority.facts) \cup
             UNION {Range(Tok.blocks[p].facts) : p \in 1..Len(Tok.blocks)} :
       /\ f.predicate.name = SymGet(CheckSymbols, "revocation_id")
       /\ Len(f.predicate.ids) = 1
       /\ f.predicate.ids[1][1] = "int"
       /\ f.predicate.ids[1][2] \in Revoked

\* C4 (as claimed): with the revocation caveat installed, check fails with
\* FailedCaveats for every token in which a block carries a revoked id,
\* whatever other revocation_id facts the token carries.
C4_RevocationCheck ==
    (GatePassed /\ InstallsRevocation /\ CarriesRevoked)
       => result.out.kind = "FailedCaveats"

\* the blocks the seeding gate refuses, by position
RefusedFact(p) ==
    \E f \in Range(Tok.blocks[p].facts) : AuthorityTagged(f) \/ AmbientTagged(f)

RefusedRule(p) ==
    \E r \in Range(Tok.blocks[p].rules) :
       AuthorityTagged([predicate |-> r.head]) \/ AmbientTagged([predicate |-> r.head])

FirstRefused(p) ==
    /\ RefusedFact(p) \/ RefusedRule(p)
    /\ \A q \in 1..(p - 1) : ~RefusedFact(q) /\ ~RefusedRule(q)
    /\ \A f \in Range(Tok.authority.facts) : ~AmbientTagged(f)

\* C5 (as claimed): a block b_i, i >= 1, with an authority- or ambient-tagged
\* fact makes check fail with InvalidBlockFact(i), and one with such a rule
\* head with InvalidBlockRule(i), i being the block's index in the token.
C5_BlockGateNumber ==
    Checked =>
       \A p \in 1..Len(Tok.blocks) :
          FirstRefused(p) =>
             /\ result.out.kind =
                   IF RefusedFact(p) THEN "InvalidBlockFact" ELSE "InvalidBlockRule"
             /\ result.out.block_id = Tok.blocks[p].index

\* every caveat of the last check, by origin: <<"authority", j>>,
\* <<"verifier", 0, k>> and <<"block", p, j>>, j and k counted from 0
UnsatAuthority ==
    {j \in 0..(Len(Tok.authority.caveats) - 1) :
        ~Satisfied(Tok.authority.caveats[j + 1])}

UnsatVerifier ==
    {k \in 0..(Len(Input_.caveats) - 1) :
        ~Satisfied(VerifierCaveats(Tok, Input_)[k + 1])}

UnsatBlock ==
    {pj \in UNION {{<<p, j>> : j \in 0..(Len(Tok.blocks[p].caveats) - 1)} :
                      p \in 1..Len(Tok.blocks)} :
        ~Satisfied(Tok.blocks[pj[1]].caveats[pj[2] + 1])}

\* C6: a FailedCaveats list holds exactly one entry for every unsatisfied
\* caveat of the authority block, of the verifier and of every appended
\* block, and none for a satisfied caveat (failures are accumulated, the
\* first failure does not end the evaluation).
C6_FailuresAccumulated ==
    (GatePassed /\ result.out.kind = "FailedCaveats") =>
       /\ Len(Errors) = Cardinality(UnsatAuthority) + Cardinality(UnsatVerifier)
                           + Cardinality(UnsatBlock)
       /\ \A i \in 1..Len(Errors) : Errors[i].kind \in {"Block", "Verifier"}
       /\ \A k \in 0..(Len(Input_.caveats) - 1) :
             Cardinality({i \in 1..Len(Errors) :
                             Errors[i].kind = "Verifier" /\ Errors[i].caveat_id = k})
                = IF k \in UnsatVerifier THEN 1 ELSE 0
       /\ \A j \in {Errors[i].caveat_id : i \in 1..Len(Errors)}
                \cup UnsatAuthority \cup {pj[2] : pj \in UnsatBlock} :
             Cardinality({i \in 1..Len(Errors) :
                             Errors[i].kind = "Block" /\ Errors[i].caveat_id = j})
                = Cardinality({a \in UnsatAuthority : a = j})
                  + Cardinality({pj \in UnsatBlock : pj[2] = j})

\* failures of the authority block, of the verifier and of an appended block
\* are reported together, while another caveat is satisfied
C6_Witness ==
    /\ GatePassed
    /\ result.out.kind = "FailedCaveats"
    /\ UnsatAuthority # {} /\ UnsatVerifier # {} /\ UnsatBlock # {}
    /\ Len(Errors) >= 4
    /\ \E j \in 0..(Len(Tok.authority.caveats) - 1) : j \notin UnsatAuthority

\* C7 (as claimed): a failing caveat j of the authority block is reported as
\* Block{block_id: 0, caveat_id: j}, a failing caveat j of the appended block
\* with index i as Block{block_id: i, caveat_id: j} with i >= 1; block_id 0
\* always designates the authority block.
C7_BlockNumbering ==
    (GatePassed /\ result.out.kind = "FailedCaveats") =>
       /\ \A i \in 1..Len(Errors) :
             (Errors[i].kind = "Block" /\ Errors[i].block_id = 0)
                => Errors[i].caveat_id \in UnsatAuthority
       /\ \A pj \in UnsatBlock :
             CountEntries(FailedBlockCaveat(Tok.blocks[pj[1]].index, pj[2])) = 1
       /\ \A j \in UnsatAuthority : CountEntries(FailedBlockCaveat(0, j)) = 1

\* C8: the failure list of check holds at most one Verifier{caveat_id: k}
\* entry for each verifier caveat k, and exactly one when that caveat is
\* unsatisfied, whatever the number of appended blocks.
C8_VerifierCaveatsOnce ==
    GatePassed =>
       \A k \in 0..(Len(Input_.caveats) - 1) :
          CountEntries(FailedVerifierCaveat(k)) = IF k \in UnsatVerifier THEN 1 ELSE 0

\* two blocks were appended, one verifier caveat failed and another held
C8_Witness ==
    /\ GatePassed
    /\ Len(Tok.blocks) = MaxBlocks
    /\ \E k \in UnsatVerifier : CountEntries(FailedVerifierCaveat(k)) = 1
    /\ \E k \in 0..(Len(Input_.caveats) - 1) : k \notin UnsatVerifier

\* the names of the verifier's queries
QueryNames == {Input_.queries[i].name : i \in 1..Len(Input_.queries)}

C10_VerifyRootPasses ==
    (Len(token) = 1 /\ result.op = "verify" /\ result.root = rootkey)
       => result.out.kind \notin {"Sealed", "Format"}

\* blocks were appended under keypairs other than the root, and verify under
\* the root's public key returned a verifier
C10_Witness ==
    /\ Len(token) = 1
    /\ result.op = "verify" /\ result.root = rootkey
    /\ Len(Tok.blocks) = MaxBlocks
    /\ \E i \in 2..Len(Tok.container[1].keys) :
          Tok.container[1].keys[i] # PublicOf(rootkey)
    /\ result.out.kind = "Ok"


(***************************************************************************)
(* The wire: what a state shows of the bytes sent and of the token read    *)
(* back from them.                                                         *)
(***************************************************************************)
\* the message on the wire
Sent == wire[1]

\* the current token was read from the wire
ReadBack == Len(token) = 1 /\ Len(wire) = 1

\* the token the bytes on the wire were made from
Origin == Sent.origin

\* the signed container the bytes on the wire decode to
SentContainer == SerializedFromSlice(Sent.bytes).container

\* C11: a signed container in which the bytes of a block were replaced, a
\* block was removed, two blocks were reordered or a block of another chain
\* was spliced in fails the container check under the root public key with a
\* Signature error, and verify returns a verifier for no token read from it.
C11_TamperEvidence ==
    /\ (Len(wire) = 1 /\ Sent.form = "signed" /\ ~Sent.tampered) =>
          \A c \in Tampered(SentContainer) :
             SerializedCheckRootKey(c, PublicOf(rootkey)) = "Signature"
    /\ (ReadBack /\ forged /\ result.op = "verify") =>
          /\ result.out.kind = "Format"
          /\ result.root = rootkey => result.out.format = "Signature"

\* a token with its caveats and facts stripped from an appended block was
\* read from the rewritten bytes, and verify under the root key refused it
C11_Witness ==
    /\ ReadBack /\ forged
    /\ result.op = "verify" /\ result.root = rootkey
    /\ result.out.kind = "Format" /\ result.out.format = "Signature"
    /\ Tok.authority = Origin.authority
    /\ Len(Tok.blocks) = Len(Origin.blocks)
    /\ \E p \in 1..Len(Tok.blocks) :
          /\ Len(Origin.blocks[p].facts) > 0
          /\ Len(Tok.blocks[p].facts) = 0

\* the token read by from_with_symbols equals the token the bytes were made
\* from on authority, blocks, symbols and container
SameToken ==
    /\ result.out.kind = "Ok"
    /\ Tok.authority = Origin.authority
    /\ Tok.blocks = Origin.blocks
    /\ Tok.symbols = Origin.symbols
    /\ Tok.container = Origin.container

\* verify of a token read back from untouched bytes passes the container
\* check under the root key
VerifiesAgain ==
    (ReadBack /\ ~forged /\ Sent.form = "signed"
       /\ result.op = "verify" /\ result.root = rootkey)
       => result.out.kind \notin {"Sealed", "Format"}

\* C12 (as claimed): for a token made by new over any base table it accepts
\* and by valid appends, from(to_vec(T)) succeeds with a token equal to T on
\* authority, blocks and symbols, and verify under the same root succeeds.
C12_RoundTrip ==
    /\ (result.op = "from" /\ Sent.form = "signed" /\ ~Sent.tampered
          /\ result.symbols = default_symbol_table) => SameToken
    /\ VerifiesAgain

\* C12 (amended): the same for from_with_symbols given the base table T was
\* made over; from is the case of the default table.
C12_RoundTripSameBase ==
    /\ (result.op = "from" /\ Sent.form = "signed" /\ ~Sent.tampered
          /\ result.symbols = Sent.base) => SameToken
    /\ VerifiesAgain

\* a token made over the custom table, with appended blocks that brought
\* symbols, was read back over that table
C12_Witness ==
    /\ ReadBack
    /\ result.op = "from" /\ Sent.form = "signed" /\ ~Sent.tampered
    /\ result.symbols = Sent.base
    /\ Sent.base = custom_symbol_table
    /\ Len(Tok.blocks) = MaxBlocks
    /\ \E p \in 1..Len(Tok.blocks) : Len(Tok.blocks[p].symbols) > 0
    /\ SameToken

\* the current token has no signed container
IsSealed == Len(token) = 1 /\ Len(Tok.container) = 0

\* from_sealed under the secret the bytes were sealed with makes a token
\* without container, any other secret a Format error and no token
SealedSecret ==
    (result.op = "from_sealed" /\ Sent.form = "sealed") =>
       IF result.secret = Sent.secret
       THEN /\ result.out.kind = "Ok"
            /\ IsSealed
            /\ Tok.authority = Origin.authority
            /\ Tok.blocks = Origin.blocks
       ELSE /\ result.out.kind = "Format"
            /\ "token" \notin DOMAIN from_sealed(Sent.bytes, result.secret)

\* check on the token read from the sealed bytes returns what check on the
\* token they were made from returns for the same verifier input
SameOutcome ==
    result.out = VerifierVerify(Origin, VerifierInputs[vin])

\* C13 (as claimed): for every signed token T, secret k and verifier input,
\* from_sealed(seal(T, k), k) succeeds with a token without container whose
\* check returns the outcome of T.check; another secret gives a Format error
\* and no token.
C13_SealedEquivalence ==
    /\ SealedSecret
    /\ (ReadBack /\ IsSealed /\ result.op = "check"
          /\ basetable = default_symbol_table) => SameOutcome

\* C13 (amended): the same for from_sealed_with_symbols given the base table
\* T was made over; from_sealed is the case of the default table.
C13_SealedEquivalenceSameBase ==
    /\ SealedSecret
    /\ (ReadBack /\ IsSealed /\ result.op = "check"
          /\ basetable = Sent.base) => SameOutcome

\* a token with an appended block was sealed and read back, and its check
\* succeeded on a verifier caveat over a right of the authority block
C13_Witness ==
    /\ ReadBack /\ IsSealed
    /\ result.op = "check"
    /\ basetable = Sent.base
    /\ Len(Tok.blocks) > 0
    /\ Len(VerifierInputs[vin].caveats) > 0
    /\ result.out.kind = "Ok"
    /\ SameOutcome

\* C14: on a token without container append fails with Sealed, and to_vec
\* and serialized_size fail with InternalError; no token or bytes are made.
C14_SealedIsTerminal ==
    /\ (result.op = "to_vec" /\ result.out.kind = "Ok") =>
          Len(Origin.container) = 1
    /\ IsSealed =>
          /\ result.op = "append" => result.out.kind = "Sealed"
          /\ result.op = "to_vec" => result.out.kind = "InternalError"
          /\ result.op = "serialized_size" =>
                result.out.kind = "InternalError"

\* append was refused on a sealed token that has room for a block
C14_Witness ==
    /\ IsSealed
    /\ result.op = "append"
    /\ result.out.kind = "Sealed"
    /\ Len(Tok.blocks) > 0

\* the container check of verify(root) passes on the current token
ContainerCheckPasses ==
    /\ Len(Tok.container) = 1
    /\ SerializedCheckRootKey(Tok.container[1], PublicOf(result.root)) = "Ok"

\* C15: verify(root) returns a verifier only for a token with a signed
\* container whose root-key check passes (Sealed on a sealed token, a Format
\* error on a failing check); verify_sealed returns a verifier only for a
\* token without signed container (InternalError on a signed one).
C15_PreAuthorization ==
    /\ (Len(token) = 1 /\ result.op = "verify") =>
          /\ IsSealed => result.out.kind = "Sealed"
          /\ (~IsSealed /\ ~ContainerCheckPasses) => result.out.kind = "Format"
          /\ result.out.kind \notin {"Sealed", "Format"} => ContainerCheckPasses
    /\ (Len(token) = 1 /\ result.op = "verify_sealed") =>
          /\ ~IsSealed => result.out.kind = "InternalError"
          /\ result.out.kind # "InternalError" => IsSealed

\* verify_sealed returned a verifier for a sealed token with an appended block
C15_Witness ==
    /\ IsSealed
    /\ result.op = "verify_sealed"
    /\ result.out.kind = "Ok"
    /\ Len(Tok.blocks) > 0

\* no string is twice in the table
NoDuplicates(symbols) ==
    \A i, j \in 1..Len(symbols) : symbols[i] = symbols[j] => i = j

\* the symbols of the blocks the bytes on the wire carry, in block order
SentSymbols ==
    LET c == IF Sent.form = "signed" THEN SentContainer
             ELSE SealedFromSlice(Sent.bytes, Sent.secret).container
    IN  <<c.authority[2]>> \o [p \in 1..Len(c.blocks) |-> c.blocks[p][2]]

\* one of the blocks on the wire brings a string of the given table or of a
\* block before it
SentOverlap(symbols) ==
    \E p \in 1..Len(SentSymbols) :
       ~IsDisjoint(symbols \o Concat(SubSeq(SentSymbols, 1, p - 1)),
                   SentSymbols[p])

\* C16 (as claimed): new, append, from_with_symbols and
\* from_sealed_with_symbols reject with SymbolTableOverlap a block whose
\* symbols share a string with the table accumulated so far, so the merged
\* table of every token holds no string twice.
C16_SymbolDisjointness ==
    /\ Len(token) = 1 => NoDuplicates(Tok.symbols)
    /\ (result.op = "new" /\ ~IsDisjoint(result.symbols, result.block.symbols))
          => result.out.kind = "SymbolTableOverlap"
    /\ (result.op \in {"from", "from_sealed"} /\ ~Sent.tampered
          /\ (result.op = "from_sealed" => result.secret = Sent.secret)
          /\ (result.op = "from") = (Sent.form = "signed")
          /\ SentOverlap(result.symbols))
          => result.out.kind = "SymbolTableOverlap"

\* the bytes on the wire decode block by block
SentDecodes ==
    /\ Sent.form = "signed"
    /\ Len(SentContainer.authority) = 6
    /\ \A p \in 1..Len(SentContainer.blocks) : Len(SentContainer.blocks[p]) = 6

\* the positions of the blocks on the wire whose index is not their position
SentMisplaced ==
    {p \in 1..Len(SentContainer.blocks) : SentContainer.blocks[p][1] # p}

Appended == Tok.blocks[Len(Tok.blocks)]

\* C18: a successful append(T, b) returns a token with T's authority, T's
\* blocks followed by b and T's symbols followed by b's symbols, and leaves T
\* as it was (kept in parent); a failed append leaves T as it was and returns
\* no token.
C18_CopyOnAppend ==
    [][(Len(token) = 1 /\ result'.op = "append") =>
          IF result'.out.kind = "Ok"
          THEN LET b == Build([CreateBlock(Tok, BlockContents[result'.content])
                                 EXCEPT !.index = result'.index], Tok.symbols)
               IN  /\ token'[1].authority = Tok.authority
                   /\ token'[1].blocks = Tok.blocks \o <<b>>
                   /\ token'[1].symbols = Tok.symbols \o b.symbols
                   /\ parent' = token
          ELSE /\ token' = token
               /\ parent' = parent]_vars

\* a second block that brings symbols was appended
C18_Witness ==
    /\ Len(token) = 1 /\ result.op = "append" /\ result.out.kind = "Ok"
    /\ Len(Tok.blocks) = MaxBlocks
    /\ Len(Appended.symbols) > 0
    /\ Len(parent[1].blocks) = MaxBlocks - 1

\* C19: the merged table of every token is the base table, then the
\* authority block's symbols, then each appended block's symbols in block
\* order; after an append every symbol interned before keeps its id.
C19_SymbolIdStability ==
    /\ Len(token) = 1 =>
          Tok.symbols = basetable \o Tok.authority.symbols \o
                        Concat([p \in 1..Len(Tok.blocks) |->
                                   Tok.blocks[p].symbols])
    /\ (Len(token) = 1 /\ result.op = "append" /\ result.out.kind = "Ok") =>
          \A i \in 1..Len(parent[1].symbols) :
             /\ Tok.symbols[i] = parent[1].symbols[i]
             /\ SymGet(Tok.symbols, parent[1].symbols[i]) =
                   SymGet(parent[1].symbols, parent[1].symbols[i])

\* a block that brings symbols was appended to a token made over the custom
\* table
C19_Witness ==
    /\ Len(token) = 1 /\ result.op = "append" /\ result.out.kind = "Ok"
    /\ basetable = custom_symbol_table
    /\ Len(Tok.blocks) = MaxBlocks
    /\ Len(Appended.symbols) > 0
    /\ Len(Tok.authority.symbols) > 0

\* C20 (as claimed): for every token, table and verifier input
\* generate_world and check return Ok or an error value and never panic, also
\* for a fact or rule head without terms and for a table without "authority"
\* or "ambient".
C20_NoAbort ==
    (Len(token) = 1 /\ result.op \in {"check", "verify", "verify_sealed"})
       => result.out.kind # "panic"


(***************************************************************************)
(* Saturation, queries and concurrent checks.                              *)
(***************************************************************************)
\* the run of generate_world on the token of the last check fails
TokenRunFails == RunRounds(SeededWorld(Tok), 0).kind = "RunLimit"

\* the run of check after ambient injection fails
AmbientRunFails ==
    RunRounds(InjectedWorld(TokenWorld, VerifierFacts(Tok, Input_),
                            VerifierRules(Tok, Input_)), 0).kind = "RunLimit"

\* C21 (as claimed): check returns; when the run after token seeding or the
\* run after ambient injection exceeds the safety bound, check returns the
\* RunLimit error, not an authorization outcome.
C21_BoundedSaturation ==
    (GatePassed /\ (TokenRunFails \/ AmbientRunFails))
       => result.out.kind = "RunLimit"


EachAlone(call, w) ==
    LET tok == call.self
        v   == VerifierInputs[call.v]
        errors == AuthorityErrors(w, tok)
               \o VerifierErrors(w, tok, VerifierCaveats(tok, v))
               \o Concat([p \in 1..Len(tok.blocks) |-> BlockErrors(w, tok, p)])
    IN  IF Len(errors) = 0
        THEN [kind |-> "Ok",
              query_results |-> QueryResults(w, VerifierQueries(tok, v))]
        ELSE [kind |-> "FailedCaveats", errors |-> errors]

\* the call is past its second run
PastRun(call) ==
    \/ call.pc \in {"authority", "verifier", "blocks", "queries"}
    \/ call.pc = "done" /\ call.out.kind \in {"Ok", "FailedCaveats"}

\* C23: query_rule never mutates the World: from the second run() of a
\* check to its return the World's facts and rules are those the run left,
\* and the outcome is the one obtained when every caveat and every query is
\* evaluated alone on that World, whatever was evaluated before it.
C23_QueryRuleNeverMutates ==
    \A c \in DOMAIN calls :
       PastRun(calls[c])
          => /\ calls[c].world = calls[c].ran
             /\ calls[c].pc = "done"
                   => calls[c].out = EachAlone(calls[c], calls[c].ran)

\* a check returned after a caveat was satisfied and a query had answers
C23_Witness ==
    \E c \in DOMAIN calls :
       /\ calls[c].pc = "done"
       /\ calls[c].out.kind = "Ok"
       /\ Len(calls[c].self.authority.caveats) > 1
       /\ \E n \in DOMAIN calls[c].out.query_results :
             calls[c].out.query_results[n] # {}

\* C24: concurrent checks on one token do not interfere: each call returns
\* the result it returns when run alone, and the token it was made on stays
\* the token (or the parent chain of the token) it was.
C24_ConcurrentChecks ==
    \A c \in DOMAIN calls :
       /\ calls[c].self.authority = Tok.authority
       /\ calls[c].self.blocks =
             SubSeq(Tok.blocks, 1, Len(calls[c].self.blocks))
       /\ calls[c].pc = "done"
             => calls[c].out =
                   VerifierVerify(calls[c].self, VerifierInputs[calls[c].v])

\* two calls on the same token with different verifier inputs, interleaved,
\* both returned, with different results
C24_Witness ==
    /\ DOMAIN calls = CallNames
    /\ \A c \in CallNames : calls[c].pc = "done" /\ calls[c].met
    /\ \E c, d \in CallNames :
          /\ calls[c].self = calls[d].self
          /\ calls[c].v # calls[d].v
          /\ calls[c].out.kind = "Ok"
          /\ calls[d].out.kind = "FailedCaveats"


(***************************************************************************)
(* Admission of the authority block, caveats over the whole token, the     *)
(* order of the validations.                                               *)
(***************************************************************************)
\* the fact's first term is the authority tag of the token's table
HasAuthorityTag(tok, f) ==
    /\ Len(f.predicate.ids) > 0
    /\ f.predicate.ids[1] = Symbol(SymGet(tok.symbols, "authority"))

UntaggedAuthorityFacts(tok) ==
    {f \in Range(tok.authority.facts) : ~HasAuthorityTag(tok, f)}

\* C25 (as claimed): new returns a token only if the authority block's index
\* is 0 and every one of its facts has the authority tag as first term; a
\* token whose authority block holds a fact without the tag is accepted
\* neither by new nor by check.
C25_AuthorityAdmission ==
    /\ (result.op = "new" /\ result.kind = "Ok")
          => /\ Tok.authority.index = 0
             /\ UntaggedAuthorityFacts(Tok) = {}
    /\ (Checked /\ UntaggedAuthorityFacts(Tok) # {})
          => result.out.kind \notin {"Ok", "FailedCaveats"}


\* the caveat has a query whose body is matched by these facts alone
MatchedBy(facts, cav) ==
    \E q \in Range(cav.queries) : RuleApply(facts, q) # {}

\* the facts the blocks of a token assert
AssertedFacts(tok) ==
    UNION {Range(b.facts) : b \in {tok.authority} \cup Range(tok.blocks)}

\* the caveats of the token, by position: block 0 is the authority block
CaveatPositions ==
    {<<0, j>> : j \in 1..Len(Tok.authority.caveats)} \cup
    UNION {{<<p, j>> : j \in 1..Len(Tok.blocks[p].caveats)} :
              p \in 1..Len(Tok.blocks)}

CaveatAt(pos) ==
    IF pos[1] = 0 THEN Tok.authority.caveats[pos[2]]
    ELSE Tok.blocks[pos[1]].caveats[pos[2]]

\* the entry check pushes when the caveat at the position fails
EntryOf(pos) ==
    FailedBlockCaveat(IF pos[1] = 0 THEN 0 ELSE EnumerateIndex(pos[1]),
                      pos[2] - 1)

\* C26: caveats see the whole token: a caveat of the authority block or of
\* any block, with a query whose body is matched by the facts that the
\* authority block and the appended blocks assert, is not reported as failed
\* (each reported entry stands for a caveat those facts do not match); so an
\* authority caveat j that fails on T (Block{0, j}) is satisfied on
\* append(T, b) when b asserts a fact matching its body.
C26_CaveatsSeeWholeToken ==
    GatePassed
       => /\ \A pos \in CaveatPositions :
                CountEntries(EntryOf(pos)) <=
                   Cardinality(
                      {other \in CaveatPositions :
                          /\ EntryOf(other) = EntryOf(pos)
                          /\ ~MatchedBy(AssertedFacts(Tok),
                                        CaveatAt(other))})
          /\ \A j \in 1..Len(Tok.authority.caveats) :
                (/\ Len(Tok.blocks) > 0
                 /\ MatchedBy(Range(LastBlock.facts), Tok.authority.caveats[j])
                 /\ j > Len(Tok.blocks[1].caveats))
                   => FailedBlockCaveat(0, j - 1) \notin Range(Errors)

\* the authority caveat fails on T as Block{0, 0}, the appended block asserts
\* a fact matching its body, and the check of append(T, b) succeeds
C26_Witness ==
    /\ ParentFails
    /\ FailedBlockCaveat(0, 0)
          \in Range(VerifierVerify(parent[1], Input_).errors)
    /\ ~MatchedBy(AssertedFacts(parent[1]), Tok.authority.caveats[1])
    /\ MatchedBy(Range(LastBlock.facts), Tok.authority.caveats[1])
    /\ result.out.kind = "Ok"


\* one of the caveat's queries has its body matched in the final World
BodyMatched(cav) ==
    \E q \in Range(cav.queries) : Matches(FinalWorld.facts, q) # {}

\* a fact equal to the head of one of the caveat's queries is in the World
HeadAsserted(cav) ==
    \E q \in Range(cav.queries) : [predicate |-> q.head] \in FinalWorld.facts

\* C27: a caveat is satisfied only through its query bodies: every caveat of
\* the token and of the verifier none of whose queries has a body match in
\* the final World is reported as failed, also when the World holds a fact
\* equal to the head of one of its queries.
C27_OnlyQueryBodies ==
    GatePassed
       => /\ \A pos \in CaveatPositions :
                CountEntries(EntryOf(pos)) >=
                   Cardinality({other \in CaveatPositions :
                                   /\ EntryOf(other) = EntryOf(pos)
                                   /\ ~BodyMatched(CaveatAt(other))})
          /\ \A k \in 1..Len(Input_.caveats) :
                ~BodyMatched(VerifierCaveats(Tok, Input_)[k])
                   => FailedVerifierCaveat(k - 1) \in Range(Errors)

\* tests::caveat_head_name: a block asserts the head of the authority caveat
\* and the caveat is reported as failed
C27_Witness ==
    /\ GatePassed
    /\ \E pos \in CaveatPositions :
          /\ ~BodyMatched(CaveatAt(pos))
          /\ HeadAsserted(CaveatAt(pos))
          /\ CountEntries(EntryOf(pos)) = 1


\* the block the last append built from its builder, on the token before it
BuiltOn(tok, content, index) ==
    Build([CreateBlock(tok, BlockContents[content]) EXCEPT !.index = index],
          tok.symbols)

\* C28: append reports the first failing validation in the order Sealed,
\* SymbolTableOverlap, InvalidBlockIndex, and signs only when all three pass;
\* a builder made by create_block of the same token never fails the index
\* validation.
C28_AppendValidationOrder ==
    [][(Len(token) = 1 /\ result'.op = "append") =>
          LET block == BuiltOn(Tok, result'.content, result'.index)
          IN  /\ result'.out.kind =
                    IF Len(Tok.container) = 0 THEN "Sealed"
                    ELSE IF ~IsDisjoint(Tok.symbols, block.symbols)
                    THEN "SymbolTableOverlap"
                    ELSE IF block.index # 1 + Len(Tok.blocks)
                    THEN "InvalidBlockIndex"
                    ELSE "Ok"
              /\ result'.out.kind = "Ok" =>
                    /\ Len(token'[1].container) = 1
                    /\ Len(token'[1].container[1].keys) =
                          Len(Tok.container[1].keys) + 1
              /\ result'.out.kind # "Ok" => token' = token
              /\ result'.index = CreateBlock(Tok, BlockContents[1]).index
                    => result'.out.kind # "InvalidBlockIndex"]_vars

\* a sealed token refused a builder with a wrong index: two validations
\* fail and the first is reported
C28_Witness ==
    /\ Len(token) = 1 /\ result.op = "append"
    /\ Len(Tok.container) = 0
    /\ result.index # 1 + Len(Tok.blocks)
    /\ result.out.kind = "Sealed"


\* C29 (as claimed): new validates the authority index before the symbol
\* disjointness: a block with a nonzero index is rejected with
\* InvalidAuthorityIndex(index) also when its symbols overlap the base table;
\* a failed new signs no container and returns no token.
C29_NewValidationOrder ==
    result.op = "new" =>
       /\ result.block.index # 0 =>
             result.out = [kind |-> "InvalidAuthorityIndex",
                           got  |-> result.block.index]
       /\ (result.block.index = 0
             /\ ~IsDisjoint(result.symbols, result.block.symbols)) =>
             result.out.kind = "SymbolTableOverlap"
       /\ result.out.kind # "Ok" => Len(token) = 0


\* the authority block holds a fact with the ambient tag
RefusedAuthority == \E f \in Range(Tok.authority.facts) : AmbientTagged(f)

\* the token violates the seeding gate
GateViolated ==
    RefusedAuthority
       \/ \E p \in 1..Len(Tok.blocks) : RefusedFact(p) \/ RefusedRule(p)

\* C30: gate errors are terminal and ordered: on a token that violates the
\* seeding gate check returns the error of the first violation in seeding
\* order (the authority facts; then for each block in chain order its facts,
\* then its rules), and neither FailedCaveats nor any caveat or query result.
C30_GateErrorsOrdered ==
    (Checked /\ GateViolated)
       => /\ RefusedAuthority => result.out.kind = "InvalidAuthorityFact"
          /\ \A p \in 1..Len(Tok.blocks) :
                FirstRefused(p) =>
                   result.out.kind = IF RefusedFact(p) THEN "InvalidBlockFact"
                                     ELSE "InvalidBlockRule"
          /\ result.out.kind \in {"InvalidAuthorityFact", "InvalidBlockFact",
                                  "InvalidBlockRule"}
          /\ DOMAIN result.out \subseteq {"kind", "block_id"}

\* the first block has a refused rule only, the second a refused fact, an
\* authority caveat has no match either: the rule of the first block is
\* reported
C30_Witness ==
    /\ Checked
    /\ Len(Tok.blocks) > 1
    /\ ~RefusedAuthority
    /\ ~RefusedFact(1) /\ RefusedRule(1)
    /\ RefusedFact(2)
    /\ \E j \in 1..Len(Tok.authority.caveats) :
          ~MatchedBy(AssertedFacts(Tok) \cup Range(VerifierFacts(Tok, Input_)),
                     Tok.authority.caveats[j])
    /\ result.out.kind = "InvalidBlockRule"


(***************************************************************************)
(* The order of the failure list, and the two runs of check against one.   *)
(***************************************************************************)
\* the numbers of a set in increasing order
Increasing(S) ==
    [i \in 1..Cardinality(S) |->
        CHOOSE x \in S : Cardinality({y \in S : y < x}) = i - 1]

\* an entry without its block number
KindAndCaveat(e) == <<e.kind, e.caveat_id>>

\* the failing caveats in the order of the claim: the authority block's,
\* the verifier's, then those of each block in chain order
ClaimedOrder ==
    [i \in 1..Cardinality(UnsatAuthority) |->
        <<"Block", Increasing(UnsatAuthority)[i]>>]
    \o [i \in 1..Cardinality(UnsatVerifier) |->
           <<"Verifier", Increasing(UnsatVerifier)[i]>>]
    \o Concat([p \in 1..Len(Tok.blocks) |->
                 LET failing == {pj[2] : pj \in {x \in UnsatBlock : x[1] = p}}
                 IN  [i \in 1..Cardinality(failing) |->
                        <<"Block", Increasing(failing)[i]>>]])

\* C31: in the list of FailedCaveats the entries are the failing authority
\* caveats in increasing caveat_id, then the failing verifier caveats in
\* increasing caveat_id, then the failing block caveats in chain order of
\* their blocks and, within a block, in increasing caveat_id.
C31_FailureOrder ==
    (GatePassed /\ result.out.kind = "FailedCaveats") =>
       [i \in 1..Len(Errors) |-> KindAndCaveat(Errors[i])] = ClaimedOrder

\* a list with an authority failure, two verifier failures and two failures
\* in each of two blocks
C31_Witness ==
    /\ GatePassed
    /\ result.out.kind = "FailedCaveats"
    /\ UnsatAuthority # {}
    /\ Cardinality(UnsatVerifier) > 1
    /\ Len(Tok.blocks) > 1
    /\ \A p \in 1..2 : {<<p, 0>>, <<p, 1>>} \subseteq UnsatBlock


\* the least fixpoint of a World: passes repeated until one adds nothing
RECURSIVE LeastFixpoint(_)
LeastFixpoint(world) ==
    LET new == world.facts \cup
                 UNION {RuleApply(world.facts, world.rules[i]) :
                           i \in 1..Len(world.rules)}
    IN  IF new = world.facts THEN world
        ELSE LeastFixpoint([world EXCEPT !.facts = new])

\* all token facts and ambient facts, all token rules and ambient rules, in
\* an empty World
OnePhaseWorld ==
    [facts |-> AssertedFacts(Tok) \cup Range(VerifierFacts(Tok, Input_)),
     rules |-> Tok.authority.rules
               \o Concat([p \in 1..Len(Tok.blocks) |-> Tok.blocks[p].rules])
               \o VerifierRules(Tok, Input_)]

=============================================================================
